---- MODULE Spec2Model ----
(***************************************************************************)
(* The weather agent of app/agents: the tool-calling loop of               *)
(* WeatherAgentService.process_user_message, the tool dispatch             *)
(* (_call_external_api, _save_event), the mood classifier                  *)
(* (_determine_mood) and the stored messages and events they act on; the   *)
(* event endpoints (EventViewSet) and the admin form next to them; the     *)
(* creation of agents and conversations; the two transports of a turn      *)
(* (ChatConsumer and ConversationViewSet.send_message); and the password   *)
(* reset of app/user, request and confirmation.                            *)
(*                                                                         *)
(* Texts are sequences of one-character strings, so that strip(), lower()  *)
(* and the substring test `word in text` are computed, not assumed.  A     *)
(* character outside ASCII is written by its code point ("U+2705").        *)
(* Numbers of weather payloads are in tenths (22.5 is 225), which keeps    *)
(* the thresholds 0.2 and 0.5 of the classifier exact.                     *)
(***************************************************************************)
EXTENDS Integers, Sequences, FiniteSets, TLC

\* The iteration cap the specification asks of the loop ("e.g. 6"); the
\* source has none.
IterationCap == 6

\* ---------------------------------------------------------------- bounds

\* New turns start only while a turn's two messages still fit.
MaxMessages == 4
\* Tool calls the model may request in one turn under Spec and ConcSpec.
MaxToolCalls == 1
\* Model calls of one turn under LoopSpec (the always-tool-calling stub).
MaxStubCalls == 7
\* Tool calls of one turn under TurnSpec.
MaxTurnCalls == 2
\* Event rows in the table.
MaxEvents == 1
\* Conversation rows in the table under AgentSpec.
MaxConversations == 2

\* ------------------------------------------------------------------ text

Whitespace == {" ", "\t", "\n"}

RECURSIVE LStrip(_)
LStrip(s) ==
  IF s # <<>> /\ Head(s) \in Whitespace THEN LStrip(Tail(s)) ELSE s

RECURSIVE RStrip(_)
RStrip(s) ==
  IF s # <<>> /\ s[Len(s)] \in Whitespace
  THEN RStrip(SubSeq(s, 1, Len(s) - 1))
  ELSE s

\* str.strip()
Strip(s) == RStrip(LStrip(s))

UpperChars ==
  <<"A","B","C","D","E","F","G","H","I","J","K","L","M",
    "N","O","P","Q","R","S","T","U","V","W","X","Y","Z">>

LowerChars ==
  <<"a","b","c","d","e","f","g","h","i","j","k","l","m",
    "n","o","p","q","r","s","t","u","v","w","x","y","z">>

LowerChar(c) ==
  IF \E i \in DOMAIN UpperChars : UpperChars[i] = c
  THEN LowerChars[CHOOSE i \in DOMAIN UpperChars : UpperChars[i] = c]
  ELSE c

\* str.lower()
Lower(s) == [i \in 1..Len(s) |-> LowerChar(s[i])]

\* `w in s` of two strings
Contains(s, w) ==
  \E i \in 1..(Len(s) - Len(w) + 1) : SubSeq(s, i, i + Len(w) - 1) = w

\* any(word in text for word in words)
AnyWord(text, words) == \E w \in words : Contains(text, w)

\* ------------------------------------------------------------ the values

\* Python's None, and a value that is present.
None == [t |-> "none"]

IsNone(x) == x.t = "none"

\* A number, in tenths.
Num(n) == [t |-> "num", v |-> n]

\* A string where a number is expected (a provider may send "n/a").
Str(s) == [t |-> "str", v |-> s]

Text(s) == [t |-> "text", v |-> s]

\* A dict, as a function of its keys.
Dict(d) == [t |-> "dict", v |-> d]

EmptyDict == [k \in {} |-> None]

\* d.get(k, default)
Get(d, k, default) == IF k \in DOMAIN d THEN d[k] ELSE default

\* bool(x) of a value
Truthy(x) ==
  IF x.t = "none" THEN FALSE
  ELSE IF x.t = "num" THEN x.v # 0
  ELSE IF x.t \in {"str", "text", "list"} THEN Len(x.v) > 0
  ELSE IF x.t = "dict" THEN DOMAIN x.v # {}
  ELSE TRUE

\* ------------------------------------------------------- mood classifier

Moods ==
  {"sunny", "cloudy", "rainy", "stormy", "cold", "hot", "snow", "neutral",
   "success", "loading"}

\* services.py:248  'guardado', 'evento guardado', 'registrado', '\u2705'
SuccessWords ==
  { <<"g","u","a","r","d","a","d","o">>,
    <<"e","v","e","n","t","o"," ","g","u","a","r","d","a","d","o">>,
    <<"r","e","g","i","s","t","r","a","d","o">>,
    <<"U+2705">> }

\* services.py:250  'consultando', 'obteniendo', 'buscando', 'procesando'
LoadingWords ==
  { <<"c","o","n","s","u","l","t","a","n","d","o">>,
    <<"o","b","t","e","n","i","e","n","d","o">>,
    <<"b","u","s","c","a","n","d","o">>,
    <<"p","r","o","c","e","s","a","n","d","o">> }

\* services.py:269  'nieve', 'nevada', 'nevado', 'congelado', 'helado'
ColdSnowWords ==
  { <<"n","i","e","v","e">>,
    <<"n","e","v","a","d","a">>,
    <<"n","e","v","a","d","o">>,
    <<"c","o","n","g","e","l","a","d","o">>,
    <<"h","e","l","a","d","o">> }

\* services.py:296  'nieve', 'nevada', 'nevando', 'neva', 'granizo', '\u2744\ufe0f', '\u26c4', 'snowfall'
SnowWords ==
  { <<"n","i","e","v","e">>,
    <<"n","e","v","a","d","a">>,
    <<"n","e","v","a","n","d","o">>,
    <<"n","e","v","a">>,
    <<"g","r","a","n","i","z","o">>,
    <<"U+2744","U+FE0F">>,
    <<"U+26C4">>,
    <<"s","n","o","w","f","a","l","l">> }

\* services.py:298  'tormenta', 'vendaval', 'r\xe1fagas', 'viento fuerte', '\u26c8\ufe0f', 'peligro'
StormyWords ==
  { <<"t","o","r","m","e","n","t","a">>,
    <<"v","e","n","d","a","v","a","l">>,
    <<"r","U+00E1","f","a","g","a","s">>,
    <<"v","i","e","n","t","o"," ","f","u","e","r","t","e">>,
    <<"U+26C8","U+FE0F">>,
    <<"p","e","l","i","g","r","o">> }

\* services.py:300  'lluvia', 'llover', 'precipitaci\xf3n', 'mojado', '\U0001f327\ufe0f', 'paraguas'
RainyWords ==
  { <<"l","l","u","v","i","a">>,
    <<"l","l","o","v","e","r">>,
    <<"p","r","e","c","i","p","i","t","a","c","i","U+00F3","n">>,
    <<"m","o","j","a","d","o">>,
    <<"U+1F327","U+FE0F">>,
    <<"p","a","r","a","g","u","a","s">> }

\* services.py:302  'soleado', 'despejado', 'perfecto', 'excelente', 'ideal', '\u2600\ufe0f', 'sol'
SunnyWords ==
  { <<"s","o","l","e","a","d","o">>,
    <<"d","e","s","p","e","j","a","d","o">>,
    <<"p","e","r","f","e","c","t","o">>,
    <<"e","x","c","e","l","e","n","t","e">>,
    <<"i","d","e","a","l">>,
    <<"U+2600","U+FE0F">>,
    <<"s","o","l">> }

\* services.py:304  'nublado', 'nubes', 'cubierto', 'gris', '\u2601\ufe0f'
CloudyWords ==
  { <<"n","u","b","l","a","d","o">>,
    <<"n","u","b","e","s">>,
    <<"c","u","b","i","e","r","t","o">>,
    <<"g","r","i","s">>,
    <<"U+2601","U+FE0F">> }

\* services.py:306  'calor', 'caluroso', 'sofocante', 'muy caliente', '\U0001f525'
HotWords ==
  { <<"c","a","l","o","r">>,
    <<"c","a","l","u","r","o","s","o">>,
    <<"s","o","f","o","c","a","n","t","e">>,
    <<"m","u","y"," ","c","a","l","i","e","n","t","e">>,
    <<"U+1F525">> }

\* services.py:308  'fr\xedo', 'helado', 'congelante', 'muy fr\xedo', 'glacial'
ColdWords ==
  { <<"f","r","U+00ED","o">>,
    <<"h","e","l","a","d","o">>,
    <<"c","o","n","g","e","l","a","n","t","e">>,
    <<"m","u","y"," ","f","r","U+00ED","o">>,
    <<"g","l","a","c","i","a","l">> }

\* The five metrics both extractors fill, all None before the scan.
NoMetrics ==
  [temperature |-> None, precipitation |-> None, wind_speed |-> None,
   prob_snowfall |-> None, snow_depth |-> None]

\* The if/elif chain on the parameter name in _determine_mood.
MoodParamField(param_name) ==
  IF Contains(param_name, <<"t","_","2","m",":","C">>) THEN "temperature"
  ELSE IF Contains(param_name, <<"p","r","e","c","i","p">>)
          /\ Contains(param_name, <<"m","m">>) THEN "precipitation"
  ELSE IF Contains(param_name, <<"w","i","n","d","_","s","p","e","e","d">>)
       THEN "wind_speed"
  ELSE IF Contains(param_name,
                   <<"p","r","o","b","_","s","n","o","w","f","a","l","l">>)
       THEN "prob_snowfall"
  ELSE IF Contains(param_name, <<"s","n","o","w","_","d","e","p","t","h">>)
       THEN "snow_depth"
  ELSE "none"

\* One pass of the loop body of _determine_mood over a parameter.
MoodScanParam(m, param) ==
  LET param_name == Get(param, "parameter", <<>>)
      coords     == Get(param, "coordinates", <<>>)
  IN IF Len(coords) > 0
     THEN LET dates == Get(coords[1], "dates", <<>>)
          IN IF Len(dates) > 0
             THEN LET value == Get(dates[1], "value", None)
                      f     == MoodParamField(param_name)
                  IN IF f = "none" THEN m ELSE [m EXCEPT ![f] = value]
             ELSE m
     ELSE m

RECURSIVE MoodScan(_, _)
MoodScan(m, data) ==
  IF data = <<>> THEN m ELSE MoodScan(MoodScanParam(m, Head(data)), Tail(data))

\* The guard of the scan: a non-empty dict with a "data" key.
HasData(weather_data) ==
  Truthy(weather_data) /\ weather_data.t = "dict"
  /\ "data" \in DOMAIN weather_data.v

\* `for param in weather_data["data"]` raises TypeError on a value that
\* cannot be iterated.
MoodScanRaises(weather_data) ==
  HasData(weather_data) /\ weather_data.v["data"].t \in {"none", "num", "bool"}

\* The metrics _determine_mood reads from the payload.  The keys of a dict
\* and the characters of a string are no dicts: the scan skips them.
MoodMetrics(weather_data) ==
  IF HasData(weather_data) /\ weather_data.v["data"].t = "list"
  THEN MoodScan(NoMetrics, weather_data.v["data"].v)
  ELSE NoMetrics

\* A comparison of a value with a number raises TypeError on a string.
Raises(x) == x.t = "str"

IsNum(x) == x.t = "num"

\* The structured rules of _determine_mood in their order.  Each yields a
\* mood, "pass" when it does not match, or "TypeError" when its comparison
\* raises.
MoodRuleSnowDepth(m) ==
  IF IsNone(m.snow_depth) THEN "pass"
  ELSE IF Raises(m.snow_depth) THEN "TypeError"
  ELSE IF m.snow_depth.v > 0 THEN "snow" ELSE "pass"

MoodRuleSnowProb(m) ==
  IF IsNone(m.prob_snowfall) THEN "pass"
  ELSE IF Raises(m.prob_snowfall) THEN "TypeError"
  ELSE IF m.prob_snowfall.v > 500 THEN "snow" ELSE "pass"

MoodRuleFreezing(m) ==
  IF IsNone(m.temperature) \/ IsNone(m.precipitation) THEN "pass"
  ELSE IF Raises(m.temperature) THEN "TypeError"
  ELSE IF ~(m.temperature.v <= 0) THEN "pass"
  ELSE IF Raises(m.precipitation) THEN "TypeError"
  ELSE IF m.precipitation.v > 2 THEN "snow" ELSE "pass"

MoodRuleColdWords(m, message_lower) ==
  IF IsNone(m.temperature) THEN "pass"
  ELSE IF Raises(m.temperature) THEN "TypeError"
  ELSE IF m.temperature.v < -20 /\ AnyWord(message_lower, ColdSnowWords)
       THEN "snow" ELSE "pass"

\* Heavy rain without the look at the wind.
MoodRuleHeavyRainNoWind(m) ==
  IF IsNone(m.precipitation) THEN "pass"
  ELSE IF Raises(m.precipitation) THEN "TypeError"
  ELSE IF ~(m.precipitation.v > 50) THEN "pass"
  ELSE "rainy"

MoodRuleHeavyRain(m) ==
  IF IsNone(m.precipitation) THEN "pass"
  ELSE IF Raises(m.precipitation) THEN "TypeError"
  ELSE IF ~(m.precipitation.v > 50) THEN "pass"
  ELSE IF ~Truthy(m.wind_speed) THEN "rainy"
  ELSE IF Raises(m.wind_speed) THEN "TypeError"
  ELSE IF m.wind_speed.v > 400 THEN "stormy" ELSE "rainy"

\* Light rain with the threshold of heavy rain.
MoodRuleRainHeavyOnly(m) ==
  IF IsNum(m.precipitation) /\ m.precipitation.v > 50 THEN "rainy" ELSE "pass"

MoodRuleRain(m) ==
  IF IsNum(m.precipitation) /\ m.precipitation.v > 5 THEN "rainy" ELSE "pass"

MoodRuleWind(m) ==
  IF IsNone(m.wind_speed) THEN "pass"
  ELSE IF Raises(m.wind_speed) THEN "TypeError"
  ELSE IF m.wind_speed.v > 500 THEN "stormy" ELSE "pass"

\* The pleasant range without its ends.
MoodRuleTemperatureStrict(m) ==
  IF ~IsNum(m.temperature) THEN "pass"
  ELSE IF m.temperature.v > 350 THEN "hot"
  ELSE IF m.temperature.v > 180 /\ m.temperature.v < 280
          /\ (IsNone(m.precipitation)
              \/ (IsNum(m.precipitation) /\ m.precipitation.v < 5))
       THEN "sunny" ELSE "pass"

MoodRuleTemperature(m) ==
  IF ~IsNum(m.temperature) THEN "pass"
  ELSE IF m.temperature.v > 350 THEN "hot"
  ELSE IF m.temperature.v >= 180 /\ m.temperature.v <= 280
          /\ (IsNone(m.precipitation)
              \/ (IsNum(m.precipitation) /\ m.precipitation.v < 5))
       THEN "sunny" ELSE "pass"

\* The keyword fallback on the lowered reply.
MoodKeywords(message_lower) ==
  IF AnyWord(message_lower, SnowWords) THEN "snow"
  ELSE IF AnyWord(message_lower, StormyWords) THEN "stormy"
  ELSE IF AnyWord(message_lower, RainyWords) THEN "rainy"
  ELSE IF AnyWord(message_lower, SunnyWords) THEN "sunny"
  ELSE IF AnyWord(message_lower, CloudyWords) THEN "cloudy"
  ELSE IF AnyWord(message_lower, HotWords) THEN "hot"
  ELSE IF AnyWord(message_lower, ColdWords) THEN "cold"
  ELSE "neutral"

RECURSIVE FirstMatch(_)
FirstMatch(rs) ==
  IF Head(rs) # "pass" \/ Len(rs) = 1 THEN Head(rs) ELSE FirstMatch(Tail(rs))

\* The markers of the reply looked at after the payload's rules.
DetermineMoodMarkersLast(assistant_message, weather_data) ==
  LET message_lower == Lower(assistant_message)
      m == MoodMetrics(weather_data)
  IN IF MoodScanRaises(weather_data) THEN "TypeError"
     ELSE FirstMatch(<<MoodRuleSnowDepth(m), MoodRuleSnowProb(m),
                       MoodRuleFreezing(m), MoodRuleColdWords(m, message_lower),
                       MoodRuleHeavyRain(m), MoodRuleRain(m), MoodRuleWind(m),
                       MoodRuleTemperature(m),
                       IF AnyWord(message_lower, SuccessWords) THEN "success"
                       ELSE IF AnyWord(message_lower, LoadingWords) THEN "loading"
                       ELSE MoodKeywords(message_lower)>>)

\* _determine_mood: a mood, or "TypeError" when it raises.
DetermineMood(assistant_message, weather_data) ==
  LET message_lower == Lower(assistant_message)
      m == MoodMetrics(weather_data)
  IN IF MoodScanRaises(weather_data) THEN "TypeError"
     ELSE IF AnyWord(message_lower, SuccessWords) THEN "success"
     ELSE IF AnyWord(message_lower, LoadingWords) THEN "loading"
     ELSE FirstMatch(<<MoodRuleSnowDepth(m), MoodRuleSnowProb(m),
                       MoodRuleFreezing(m), MoodRuleColdWords(m, message_lower),
                       MoodRuleHeavyRain(m), MoodRuleRain(m), MoodRuleWind(m),
                       MoodRuleTemperature(m), MoodKeywords(message_lower)>>)

\* ------------------------------------------------------ weather payloads

List(s) == [t |-> "list", v |-> s]

\* One entry of a Meteomatics "data" list with one coordinate and one date.
Param(name, value) ==
  [parameter |-> name,
   coordinates |-> <<[dates |-> <<[value |-> value]>>]>>]

T2M == <<"t","_","2","m",":","C">>

PRECIP1H == <<"p","r","e","c","i","p","_","1","h",":","m","m">>

WIND10M ==
  <<"w","i","n","d","_","s","p","e","e","d","_","1","0","m",":","k","m","h">>

PROBSNOW == <<"p","r","o","b","_","s","n","o","w","f","a","l","l",":","p">>

SNOWDEPTH == <<"s","n","o","w","_","d","e","p","t","h",":","c","m">>

\* 22.5 degrees and no rain.
MildPayload == Dict([data |-> List(<<Param(T2M, Num(225)), Param(PRECIP1H, Num(0))>>)])

\* Heavy rain with strong wind.
StormPayload ==
  Dict([data |-> List(<<Param(PRECIP1H, Num(60)), Param(WIND10M, Num(450))>>)])

\* The probability of precipitation, in percent.
PROBPRECIP ==
  <<"p","r","o","b","_","p","r","e","c","i","p","_","1","h",":","p">>

\* A provider answer with every metric: the temperature for two
\* coordinates, the first with two dates; of the precipitation it has the
\* probability.
FullPayload ==
  Dict([data |-> List(<<
    [parameter |-> T2M,
     coordinates |-> <<[dates |-> <<[value |-> Num(225)], [value |-> Num(230)]>>],
                       [dates |-> <<[value |-> Num(90)]>>]>>],
    Param(PROBPRECIP, Num(800)), Param(WIND10M, Num(450)),
    Param(PROBSNOW, Num(510)), Param(SNOWDEPTH, Num(1))>>)])

\* A payload whose second parameter has a number where a coordinate is
\* expected.
BrokenPayload ==
  Dict([data |-> List(<<
    Param(T2M, Num(225)),
    [parameter |-> WIND10M, coordinates |-> <<Num(50)>>],
    Param(SNOWDEPTH, Num(1))>>)])

\* A provider answer whose temperature is a string.
BadValuePayload == Dict([data |-> List(<<Param(T2M, Str(<<"n","/","a">>))>>)])

\* --------------------------------------------------------------- events

\* A string that is only passed on or looked up, never scanned.
PyStr(s) == [t |-> "pystr", v |-> s]

\* The fields of models.Event: its declared fields, with the id.
EventFields ==
  {"id", "user", "conversation", "event_name", "event_date", "location_name",
   "latitude", "longitude", "weather_data", "temperature", "precipitation",
   "wind_speed", "created_at", "updated_at"}

\* The id the table gives the next row.
NextEventId(events) ==
  IF events = <<>> THEN 1
  ELSE 1 + CHOOSE n \in {events[i].id : i \in DOMAIN events} :
             \A i \in DOMAIN events : events[i].id <= n

\* Event.objects.create(**kwargs): a keyword that names no field raises
\* TypeError, a missing user or a null event_name is refused by the table
\* (IntegrityError); otherwise one row is appended and gets the next id.
EventCreate(events, kwargs) ==
  IF ~(DOMAIN kwargs \subseteq EventFields)
  THEN [raised |-> TRUE, error |-> "TypeError: unexpected keyword arguments",
        events |-> events, id |-> 0]
  ELSE IF "user" \notin DOMAIN kwargs
  THEN [raised |-> TRUE, error |-> "IntegrityError: user_id is null",
        events |-> events, id |-> 0]
  ELSE IF IsNone(kwargs.event_name)
  THEN [raised |-> TRUE, error |-> "IntegrityError: event_name is null",
        events |-> events, id |-> 0]
  ELSE [raised |-> FALSE, error |-> "",
        events |-> Append(events, [id |-> NextEventId(events)] @@ kwargs),
        id |-> NextEventId(events)]

\* event_date_str.replace('Z', '+00:00'), on a string written as its pieces.
ReplaceZ(s) == [i \in 1..Len(s) |-> IF s[i] = "Z" THEN "+00:00" ELSE s[i]]

\* The strings datetime.fromisoformat accepts, among those of the model.
IsoFormats ==
  { <<"2025-10-05T14:00:00">>, <<"2025-10-05T14:00:00", "+00:00">>,
    <<"2025-10-05">>, <<"2025-10-05x14:00:00">> }

\* datetime.fromisoformat: the datetime, or ValueError.
FromIsoFormat(s) ==
  IF s \in IsoFormats
  THEN [raised |-> FALSE,
        v |-> [date |-> s[1], utcoffset |-> IF Len(s) > 1 THEN s[2] ELSE "naive"]]
  ELSE [raised |-> TRUE, v |-> None]

\* The weather_data strings of the model and what json.loads makes of them.
JsonLoads(s) ==
  CASE s = "{\"temp\": 20}" -> [raised |-> FALSE, v |-> Dict([temp |-> Num(200)])]
    [] s = "{}"               -> [raised |-> FALSE, v |-> Dict(EmptyDict)]
    [] s = "[1]"              -> [raised |-> FALSE, v |-> List(<<Num(10)>>)]
    [] s = "null"             -> [raised |-> FALSE, v |-> None]
    [] s = "{\"data\": [t_2m:C 22.5, precip_1h:mm 0]}"
                              -> [raised |-> FALSE, v |-> MildPayload]
    [] s = "{\"success\": true, \"data\": {\"data\": [t_2m:C 22.5, precip_1h:mm 0]}}"
         -> [raised |-> FALSE,
             v |-> Dict([success |-> [t |-> "bool", v |-> TRUE], data |-> MildPayload])]
    [] s = "{\"data\": [t_2m:C [[22.5, 23.0], [9.0]], prob_precip_1h:p 80, wind_speed_10m:kmh 45, prob_snowfall:p 51, snow_depth:cm 0.1]}"
                              -> [raised |-> FALSE, v |-> FullPayload]
    [] s = "{\"data\": [t_2m:C 22.5, wind_speed_10m:kmh [5], snow_depth:cm 0.1]}"
                              -> [raised |-> FALSE, v |-> BrokenPayload]
    [] OTHER                  -> [raised |-> TRUE, v |-> None]

\* ... and what ast.literal_eval makes of them.
LiteralEval(s) ==
  CASE s = "{'temp': 20}"   -> [raised |-> FALSE, v |-> Dict([temp |-> Num(200)])]
    [] s = "{\"temp\": 20}" -> [raised |-> FALSE, v |-> Dict([temp |-> Num(200)])]
    [] s = "{}"             -> [raised |-> FALSE, v |-> Dict(EmptyDict)]
    [] s = "[1]"            -> [raised |-> FALSE, v |-> List(<<Num(10)>>)]
    [] s = "{'data': [t_2m:C 22.5, precip_1h:mm 0]}"
                            -> [raised |-> FALSE, v |-> MildPayload]
    [] OTHER                -> [raised |-> TRUE, v |-> None]

\* The if/elif chain on the parameter name in _save_event.
EventParamField(param_name) ==
  IF Contains(param_name, <<"t","_","2","m",":","C">>) THEN "temperature"
  ELSE IF Contains(param_name, <<"p","r","e","c","i","p">>) THEN "precipitation"
  ELSE IF Contains(param_name, <<"w","i","n","d","_","s","p","e","e","d">>)
       THEN "wind_speed"
  ELSE IF Contains(param_name,
                   <<"p","r","o","b","_","s","n","o","w","f","a","l","l">>)
       THEN "prob_snowfall"
  ELSE IF Contains(param_name, <<"s","n","o","w","_","d","e","p","t","h">>)
       THEN "snow_depth"
  ELSE "none"

\* One pass of the loop body of _save_event over a parameter.
EventScanParam(m, param) ==
  LET param_name == Get(param, "parameter", <<>>)
      coords     == Get(param, "coordinates", <<>>)
  IN IF Len(coords) > 0
     THEN LET dates_list == Get(coords[1], "dates", <<>>)
          IN IF Len(dates_list) > 0
             THEN LET value == Get(dates_list[1], "value", None)
                      f     == EventParamField(param_name)
                  IN IF f = "none" THEN m ELSE [m EXCEPT ![f] = value]
             ELSE m
     ELSE m

\* coords[0].get and dates_list[0].get raise AttributeError on a value
\* that is no dict.
EventParamRaises(param) ==
  LET coords == Get(param, "coordinates", <<>>)
  IN /\ Len(coords) > 0
     /\ \/ "t" \in DOMAIN coords[1]
        \/ LET dates_list == Get(coords[1], "dates", <<>>)
           IN Len(dates_list) > 0 /\ "t" \in DOMAIN dates_list[1]

\* The loop over the parameters; the `except Exception` around the
\* extraction ends it at the first parameter that raises and keeps what
\* was extracted before.
RECURSIVE EventScan(_, _)
EventScan(m, data) ==
  IF data = <<>> THEN m
  ELSE IF EventParamRaises(Head(data)) THEN m
  ELSE EventScan(EventScanParam(m, Head(data)), Tail(data))

\* json.loads, then ast.literal_eval when it raises JSONDecodeError.
ParseWeatherString(weather_data_str) ==
  LET j == JsonLoads(weather_data_str)
  IN IF ~j.raised THEN j.v
     ELSE LET l == LiteralEval(weather_data_str)
          IN IF ~l.raised THEN l.v ELSE None

\* The metrics _save_event reads from a parsed mapping: from the mapping
\* under data when it has a success key, and only from a data list.
EventMetrics(parsed) ==
  LET actual_data ==
        IF "success" \in DOMAIN parsed.v
        THEN Get(parsed.v, "data", parsed) ELSE parsed
  IN IF actual_data.t = "dict" /\ "data" \in DOMAIN actual_data.v
        /\ actual_data.v["data"].t = "list"
     THEN EventScan(NoMetrics, actual_data.v["data"].v)
     ELSE NoMetrics

\* The payload and the metrics _save_event stores for a weather_data argument.
EventWeather(weather_data_str) ==
  IF IsNone(weather_data_str) \/ weather_data_str.v = ""
  THEN [weather_data |-> None, metrics |-> NoMetrics]
  ELSE LET parsed == ParseWeatherString(weather_data_str.v)
       IN IF Truthy(parsed) /\ parsed.t = "dict"
          THEN [weather_data |-> parsed, metrics |-> EventMetrics(parsed)]
          ELSE [weather_data |-> Dict([raw |-> weather_data_str]),
                metrics |-> NoMetrics]

\* The keyword arguments _save_event passes to Event.objects.create.
EventKwargs(conversation, args, event_date, w) ==
  [user |-> conversation.user,
   conversation |-> conversation.id,
   event_name |-> Get(args, "event_name", None),
   event_date |-> event_date,
   location_name |-> Get(args, "location_name", PyStr("")),
   latitude |-> Get(args, "latitude", None),
   longitude |-> Get(args, "longitude", None),
   weather_data |-> w.weather_data,
   temperature |-> w.metrics.temperature,
   precipitation |-> w.metrics.precipitation,
   wind_speed |-> w.metrics.wind_speed,
   prob_snowfall |-> w.metrics.prob_snowfall,
   snow_depth |-> w.metrics.snow_depth]

Failure(error) == [success |-> FALSE, error |-> error]

\* The handler without its return: the exception leaves _save_event.
SaveEventExceptReraises(e, events) ==
  [raised |-> TRUE, result |-> None, events |-> events]

\* `except Exception as e` of _save_event: the failure is the result.
SaveEventExcept(e, events) ==
  [raised |-> FALSE, result |-> Failure(e), events |-> events]

\* _save_event: whether it raised, its result and the events after it.
\* Every exception of its body is caught and reported as a failure.
SaveEvent(conversation, args, events) ==
  LET event_date_str == Get(args, "event_date", None)
  IN IF event_date_str.t # "str"
     THEN SaveEventExcept("Error al guardar el evento: AttributeError", events)
     ELSE LET d == FromIsoFormat(ReplaceZ(event_date_str.v))
          IN IF d.raised
             THEN SaveEventExcept("Error al guardar el evento: ValueError", events)
             ELSE LET w == EventWeather(Get(args, "weather_data", None))
                      c == EventCreate(events, EventKwargs(conversation, args, d.v, w))
                  IN IF c.raised
                     THEN SaveEventExcept(c.error, events)
                     ELSE [raised |-> FALSE,
                           result |-> [success |-> TRUE,
                                       message |-> Get(args, "event_name", None),
                                       event_id |-> c.id],
                           events |-> c.events]

\* ------------------------------------------------------------- dispatch

RegisteredTools ==
  {"save_event", "get_coordinates_from_address", "get_current_datetime",
   "get_weather_data"}

EnvKeys ==
  {"GOOGLE_API_KEY", "GOOGLE_MAPS_API_KEY", "METEOMATICS_USERNAME",
   "METEOMATICS_PASSWORD"}

\* The geocoding branch of _call_external_api; ext is the provider's answer.
Geocode(args, environ, ext) ==
  IF "GOOGLE_MAPS_API_KEY" \notin environ
  THEN Failure("API Key de Google Maps no configurada.")
  ELSE IF ext.kind # "results"
  THEN Failure("Error al llamar a la API de Geocoding")
  ELSE IF ext.results = <<>>
  THEN Failure("No se encontraron coordenadas")
  ELSE [success |-> TRUE,
        location |-> <<ext.results[1].lat, ",", ext.results[1].lng>>]

\* The weather branch without the test of the status code.
GetWeatherDataAnyStatus(args, environ, ext) ==
  IF "METEOMATICS_USERNAME" \notin environ \/ "METEOMATICS_PASSWORD" \notin environ
  THEN Failure("Credenciales de Meteomatics no configuradas")
  ELSE IF ext.kind # "response"
  THEN Failure("Error al consultar Meteomatics")
  ELSE [success |-> TRUE, data |-> ext.json]

\* The weather branch of _call_external_api; ext is the provider's answer.
GetWeatherData(args, environ, ext) ==
  IF "METEOMATICS_USERNAME" \notin environ \/ "METEOMATICS_PASSWORD" \notin environ
  THEN Failure("Credenciales de Meteomatics no configuradas")
  ELSE IF ext.kind # "response"
  THEN Failure("Error al consultar Meteomatics")
  ELSE IF ext.status_code = 200
  THEN [success |-> TRUE, data |-> ext.json]
  ELSE Failure("API respondio con codigo distinto de 200")

\* A dispatch that raises instead of reporting.
UnknownToolRaises(function_name, events) ==
  [raised |-> TRUE, events |-> events, result |-> None]

\* The last line of _call_external_api: no branch matched the name.
UnknownTool(function_name, events) ==
  [raised |-> FALSE, events |-> events, result |-> Failure("Funcion no reconocida")]

\* _call_external_api: whether it raised, its result, and the events after it.
CallExternalApi(function_name, args, conversation, environ, ext, events) ==
  IF function_name = "save_event"
  THEN IF IsNone(conversation)
       THEN [raised |-> FALSE, events |-> events,
             result |-> Failure("Conversacion no disponible para guardar evento")]
       ELSE SaveEvent(conversation, args, events)
  ELSE IF function_name = "get_coordinates_from_address"
  THEN [raised |-> FALSE, events |-> events, result |-> Geocode(args, environ, ext)]
  ELSE IF function_name = "get_current_datetime"
  THEN [raised |-> FALSE, events |-> events,
        result |-> [success |-> TRUE, current_datetime |-> ext.now]]
  ELSE IF function_name = "get_weather_data"
  THEN [raised |-> FALSE, events |-> events,
        result |-> GetWeatherData(args, environ, ext)]
  ELSE UnknownTool(function_name, events)

\* The tool-level failures: no conversation for save_event, a malformed
\* event date, missing credentials, a geocoder that raises or finds nothing,
\* a weather request that raises or is not answered 200.
ToolFailure(function_name, args, conversation, environ, ext) ==
  \/ /\ function_name = "save_event"
     /\ \/ IsNone(conversation)
        \/ /\ "event_date" \in DOMAIN args
           /\ ReplaceZ(args["event_date"].v) \notin IsoFormats
  \/ /\ function_name = "get_coordinates_from_address"
     /\ \/ "GOOGLE_MAPS_API_KEY" \notin environ
        \/ ext.kind = "exception"
        \/ ext.kind = "results" /\ ext.results = <<>>
  \/ /\ function_name = "get_weather_data"
     /\ \/ {"METEOMATICS_USERNAME", "METEOMATICS_PASSWORD"} \ environ # {}
        \/ ext.kind = "exception"
        \/ ext.kind = "response" /\ ext.status_code # 200

\* What the outside world may answer to a tool: the geocoder's result list
\* or exception, the weather provider's response or exception, the clock.
ExternalAnswers(function_name) ==
  IF function_name = "get_coordinates_from_address"
  THEN <<[kind |-> "exception"],
         [kind |-> "results", results |-> <<>>],
         [kind |-> "results", results |-> <<[lat |-> "48.85", lng |-> "2.35"]>>]>>
  ELSE IF function_name = "get_weather_data"
  THEN <<[kind |-> "exception"],
         [kind |-> "response", status_code |-> 404, json |-> None],
         [kind |-> "response", status_code |-> 200, json |-> MildPayload],
         [kind |-> "response", status_code |-> 200, json |-> StormPayload],
         [kind |-> "response", status_code |-> 200, json |-> BadValuePayload]>>
  ELSE IF function_name = "get_current_datetime"
  THEN <<[kind |-> "clock", now |-> "2025-10-04T12:00:00Z"]>>
  ELSE <<[kind |-> "none"]>>

\* ------------------------------------------------------ the model's side

FC(name, args) == [t |-> "function_call", name |-> name, args |-> args]

TextPart(s) == [text |-> Text(s), function_call |-> None]

CallPart(fc) == [text |-> None, function_call |-> fc]

EVENT_NAME == PyStr("Picnic")

DATE_Z == Str(<<"2025-10-05T14:00:00", "Z">>)

DATE_BAD == Str(<<"el sabado">>)

DATE_NAIVE == Str(<<"2025-10-05T14:00:00">>)

\* No ISO-8601 date, but a string datetime.fromisoformat accepts: the
\* separator of date and time may be any character.
DATE_X == Str(<<"2025-10-05x14:00:00">>)

DATE_NUM == Num(20251005)

\* The event_date arguments of a direct _save_event call.
EventDates == <<DATE_Z, DATE_NAIVE, DATE_BAD, DATE_X, DATE_NUM>>

\* The weather_data arguments of a direct _save_event call: JSON mappings
\* (one empty), JSON that is no mapping, Python literals, other strings,
\* and two payloads: one with every metric, one that cannot be read through.
WeatherStrings ==
  << "{\"temp\": 20}", "{}", "[1]", "null",
     "{\"data\": [t_2m:C 22.5, precip_1h:mm 0]}",
     "{\"success\": true, \"data\": {\"data\": [t_2m:C 22.5, precip_1h:mm 0]}}",
     "{'temp': 20}", "{'data': [t_2m:C 22.5, precip_1h:mm 0]}",
     "lluvia ligera", "{temp: 20", "",
     "{\"data\": [t_2m:C [[22.5, 23.0], [9.0]], prob_precip_1h:p 80, wind_speed_10m:kmh 45, prob_snowfall:p 51, snow_depth:cm 0.1]}",
     "{\"data\": [t_2m:C 22.5, wind_speed_10m:kmh [5], snow_depth:cm 0.1]}" >>

FC_NOW == FC("get_current_datetime", EmptyDict)

FC_UNKNOWN == FC("delete_event", EmptyDict)

\* The tool calls the model requests in this model.
FunctionCalls ==
  << FC_NOW,
     FC("get_coordinates_from_address", [address |-> PyStr("Paris")]),
     FC("get_weather_data",
        [datetime |-> PyStr("2025-10-05T14:00:00Z"),
         parameters |-> PyStr("t_2m:C,precip_1h:mm"),
         coordinates |-> PyStr("48.85,2.35")]),
     FC("save_event", [event_name |-> EVENT_NAME, event_date |-> DATE_Z]),
     FC("save_event",
        [event_name |-> EVENT_NAME, event_date |-> DATE_Z,
         location_name |-> PyStr("Paris"), latitude |-> Num(488), longitude |-> Num(23),
         weather_data |-> PyStr("{\"data\": [t_2m:C 22.5, precip_1h:mm 0]}")]),
     FC("save_event", [event_name |-> EVENT_NAME, event_date |-> DATE_BAD]),
     FC("save_event", [event_name |-> EVENT_NAME]),
     FC_UNKNOWN,
     FC("", EmptyDict) >>

\* The names a dispatch is called with: the four tools and three others.
ToolNames == RegisteredTools \cup {"delete_event", "", "Save_Event"}

REPLY_SAVED ==
  <<"E","v","e","n","t","o"," ","g","u","a","r","d","a","d","o">>

REPLY_SUN == <<"H","a","c","e"," ","s","o","l">>

REPLY_PLAIN == <<"H","o","l","a">>

ReplyTexts == <<REPLY_SAVED, REPLY_SUN, REPLY_PLAIN>>

\* response.candidates[0].content.parts of the answers without a tool call:
\* one text part, or no part at all (response.text is then None).
TextResponses ==
  [i \in 1..Len(ReplyTexts) |-> <<TextPart(ReplyTexts[i])>>] \o << <<>> >>

\* ... and of the answers that request a tool: the call alone, and one
\* answer with a text and two calls.
CallResponses ==
  [i \in 1..Len(FunctionCalls) |-> <<CallPart(FunctionCalls[i])>>]
  \o << <<TextPart(REPLY_PLAIN), CallPart(FC_NOW), CallPart(FC_UNKNOWN)>> >>

\* The scan without its break: the last part with a function call.
RECURSIVE LastFunctionCall(_)
LastFunctionCall(parts) ==
  IF parts = <<>> THEN None
  ELSE IF ~IsNone(parts[Len(parts)].function_call)
  THEN parts[Len(parts)].function_call
  ELSE LastFunctionCall(SubSeq(parts, 1, Len(parts) - 1))

\* The first part with a function call, None without one.
RECURSIVE FirstFunctionCall(_)
FirstFunctionCall(parts) ==
  IF parts = <<>> THEN None
  ELSE IF ~IsNone(Head(parts).function_call) THEN Head(parts).function_call
  ELSE FirstFunctionCall(Tail(parts))

RECURSIVE JoinTexts(_)
JoinTexts(parts) ==
  IF parts = <<>> THEN <<>>
  ELSE (IF IsNone(Head(parts).text) THEN <<>> ELSE Head(parts).text.v)
       \o JoinTexts(Tail(parts))

\* response.text: the text parts joined, None when there is none.
ResponseText(parts) ==
  IF \E i \in DOMAIN parts : ~IsNone(parts[i].text)
  THEN Text(JoinTexts(parts)) ELSE None

\* ------------------------------------------------------------ the state

\* The requests in flight on the one conversation.
Procs == {1, 2}

\* The class constant SYSTEM_PROMPT, and the one an earlier release had.
SYSTEM_PROMPT == "Eres skAI (prompt of this release)"

OLD_PROMPT == "Eres skAI (prompt of an earlier release)"

WEATHER_AGENT_TYPE == "skAI Weather Agent"

\* The Agent row get_or_create makes from its lookup and its defaults.
WeatherAgentRow(id, system_prompt) ==
  [id |-> id, name |-> "skAI Weather Agent", agent_type |-> WEATHER_AGENT_TYPE,
   system_prompt |-> system_prompt, is_active |-> TRUE]

\* The Agent table when the weather agent has been fetched by this release.
StoredAgents == <<WeatherAgentRow(1, SYSTEM_PROMPT)>>

\* The conversation the turns of the model run on: alice's, with the
\* weather agent.
TheConversation ==
  [t |-> "conversation", id |-> 1, user |-> "alice", agent |-> 1,
   title |-> "Weather Consultation"]

\* The user messages of the model: empty, whitespace only, and two texts.
UserMessages ==
  { <<>>, <<" ">>, <<" ", "\n", "\t">>, <<"h","i">>, <<" ","o","k"," ">> }

VARIABLES
  messages,  \* the Message rows of the conversation, in created order
  events,    \* the Event rows
  pc,        \* per request: where it stands in process_user_message or
             \* in create_conversation
  frame,     \* per request: the locals of that call
  outcome,   \* per request: what its last call gave the caller
  direct,    \* the last direct call of an operation (a tool, the classifier,
             \* an endpoint) and its result
  users,     \* the User rows by email
  agents,    \* the Agent rows
  conversations  \* the Conversation rows

vars ==
  <<messages, events, pc, frame, outcome, direct, users, agents, conversations>>

\* make_password: the stored form of a raw password.
MakePassword(raw) == <<"pbkdf2_sha256", raw>>

\* check_password of a raw password against the stored form.
CheckPassword(raw, password) == password = MakePassword(raw)

\* The users of the model: one with a password, one who signed up with
\* Google and has a social account.
StoredUsers ==
  [email \in {"ana@example.com", "gus@example.com"} |->
     IF email = "ana@example.com"
     THEN [password |-> MakePassword("TestPass123"), socialaccount_set |-> {}]
     ELSE [password |-> MakePassword("GusPass456"),
           socialaccount_set |-> {"google"}]]

\* The locals of process_user_message, with the stored messages the call
\* found (before), the model calls it made (calls), whether it reached the
\* network (network) and whether its last tool call met a tool-level
\* failure (tool_failed).
NoFrame ==
  [user_message |-> <<>>, contents |-> <<>>, weather_data_from_api |-> None,
   response_content |-> None, function_call |-> None, function_result |-> None,
   assistant_message |-> None, before |-> <<>>, calls |-> 0, network |-> FALSE,
   tool_failed |-> FALSE]

NoOutcome ==
  [kind |-> "none", cause |-> "", message |-> None, mood |-> "",
   user_message |-> <<>>, before |-> <<>>, network |-> FALSE, calls |-> 0,
   weather_data |-> None]

NoDirect ==
  [function_name |-> "none", args |-> EmptyDict, conversation |-> None,
   environ |-> {}, ext |-> [kind |-> "none"], called |-> FALSE, raised |-> FALSE,
   result |-> None, created |-> 0]

Init ==
  /\ messages = <<>>
  /\ events = <<>>
  /\ pc = [p \in Procs |-> "idle"]
  /\ frame = [p \in Procs |-> NoFrame]
  /\ outcome = [p \in Procs |-> NoOutcome]
  /\ users = StoredUsers
  /\ agents = StoredAgents
  /\ conversations = <<TheConversation>>
  /\ direct = NoDirect

\* ------------------------------------------------ process_user_message

\* The guard without strip().
IsBlankNoStrip(user_message) == user_message = <<>>

\* `not user_message or not user_message.strip()`
IsBlank(user_message) == user_message = <<>> \/ Strip(user_message) = <<>>

\* The role of a stored message in the model request.
ModelRole(role) == IF role = "user" THEN "user" ELSE "model"

\* The history read newest first.
HistoryContentsNewestFirst(msgs) ==
  [i \in 1..Len(msgs) |->
     [role |-> ModelRole(msgs[Len(msgs) + 1 - i].role),
      parts |-> <<[text |-> msgs[Len(msgs) + 1 - i].content]>>]]

\* get_conversation_history and the contents built from it.
HistoryContents(msgs) ==
  [i \in 1..Len(msgs) |->
     [role |-> ModelRole(msgs[i].role), parts |-> <<[text |-> msgs[i].content]>>]]

\* No handler: the exception leaves as it was raised.
WrappedNot(cause) == cause

\* The class of the exception the caller sees for one raised inside the
\* try block: `except Exception` re-raises a plain Exception.
Wrapped(cause) == "Exception"

\* The call of request p ends with an exception of the given class.
Raise(p, kind, cause, user_message) ==
  /\ outcome' = [outcome EXCEPT ![p] =
       [kind |-> kind, cause |-> cause, message |-> None, mood |-> "",
        user_message |-> user_message, before |-> frame[p].before,
        network |-> frame[p].network, calls |-> frame[p].calls,
        weather_data |-> frame[p].weather_data_from_api]]
  /\ pc' = [pc EXCEPT ![p] = "idle"]
  /\ frame' = [frame EXCEPT ![p] = NoFrame]

\* The guard on the message: empty or blank raises ValueError.
Validate(p, user_message) ==
  /\ IsBlank(user_message)
  /\ outcome' = [outcome EXCEPT ![p] =
       [NoOutcome EXCEPT !.kind = "ValueError", !.user_message = user_message,
                         !.before = messages]]
  /\ pc' = [pc EXCEPT ![p] = "idle"]
  /\ frame' = [frame EXCEPT ![p] = NoFrame]

\* Entry of process_user_message up to the history read.
Call(p, user_message) ==
  /\ pc[p] = "idle"
  /\ Len(messages) + 2 <= MaxMessages
  /\ \/ Validate(p, user_message)
     \/ /\ ~IsBlank(user_message)
        /\ \E environ \in SUBSET EnvKeys :
             IF "GOOGLE_API_KEY" \notin environ
             THEN /\ outcome' = [outcome EXCEPT ![p] =
                       [NoOutcome EXCEPT !.kind = Wrapped("ValueError"),
                                         !.cause = "ValueError",
                                         !.user_message = user_message,
                                         !.before = messages]]
                  /\ pc' = [pc EXCEPT ![p] = "idle"]
                  /\ frame' = [frame EXCEPT ![p] = NoFrame]
             ELSE /\ frame' = [frame EXCEPT ![p] =
                       [NoFrame EXCEPT !.user_message = user_message,
                                       !.contents = HistoryContents(messages),
                                       !.before = messages,
                                       !.network = TRUE]]
                  /\ pc' = [pc EXCEPT ![p] = "add_message"]
                  /\ outcome' = [outcome EXCEPT ![p] = NoOutcome]
  /\ UNCHANGED <<messages, events, direct, users, agents, conversations>>

\* The append to contents without add_message.
AddUserMessageContentsOnly(p) ==
  /\ pc[p] = "add_message"
  /\ frame' = [frame EXCEPT ![p].contents =
       Append(@, [role |-> "user", parts |-> <<[text |-> frame[p].user_message]>>])]
  /\ pc' = [pc EXCEPT ![p] = "generate"]
  /\ UNCHANGED <<messages, events, outcome, direct, users, agents,
                 conversations>>

\* add_message(conversation, "user", user_message) and the append to contents.
AddUserMessage(p) ==
  /\ pc[p] = "add_message"
  /\ messages' = Append(messages, [role |-> "user", content |-> frame[p].user_message])
  /\ frame' = [frame EXCEPT ![p].contents =
       Append(@, [role |-> "user", parts |-> <<[text |-> frame[p].user_message]>>])]
  /\ pc' = [pc EXCEPT ![p] = "generate"]
  /\ UNCHANGED <<events, outcome, direct, users, agents, conversations>>

\* generate_content raises, or answers without candidates.
GenerateFails(p) ==
  /\ pc[p] = "generate"
  /\ \E cause \in {"APIError", "IndexError"} :
       Raise(p, Wrapped(cause), cause, frame[p].user_message)
  /\ UNCHANGED <<messages, events, direct, users, agents, conversations>>

\* generate_content answers with parts: the first function call is kept for
\* the dispatch, and without one the text is the reply.
GenerateAnswers(p, responses, max_calls) ==
  /\ pc[p] = "generate"
  /\ \E i \in DOMAIN responses :
       LET parts == responses[i]
           function_call == FirstFunctionCall(parts)
       IN IF ~IsNone(function_call)
          THEN /\ frame[p].calls < max_calls
               /\ frame' = [frame EXCEPT ![p].function_call = function_call,
                                         ![p].response_content =
                                            [role |-> "model", parts |-> parts],
                                         ![p].calls = @ + 1,
                                         ![p].network = TRUE]
               /\ pc' = [pc EXCEPT ![p] = "dispatch"]
          ELSE /\ frame' = [frame EXCEPT ![p].assistant_message = ResponseText(parts),
                                         ![p].calls = @ + 1,
                                         ![p].network = TRUE]
               /\ pc' = [pc EXCEPT ![p] = "reply"]
  /\ UNCHANGED <<messages, events, outcome, direct, users, agents,
                 conversations>>

\* The function response appended after a tool call.
FunctionResponse(function_name, function_result) ==
  [role |-> "none",
   parts |-> <<[function_response |->
                  [name |-> function_name, response |-> function_result]]>>]

\* The weather data kept whatever the call reported.
KeepWeatherDataAnyResult(weather_data_from_api, function_name, function_result) ==
  IF function_name = "get_weather_data"
  THEN Get(function_result, "data", None)
  ELSE weather_data_from_api

\* weather_data_from_api after a tool call: the data of a get_weather_data
\* call that reports success, else what it was.
KeepWeatherData(weather_data_from_api, function_name, function_result) ==
  IF function_name = "get_weather_data" /\ Get(function_result, "success", FALSE)
  THEN Get(function_result, "data", None)
  ELSE weather_data_from_api

\* The tool call of the loop body: dispatch, keep the weather data, append
\* the model's content and the function response.
Dispatch(p) ==
  /\ pc[p] = "dispatch"
  /\ LET function_name == frame[p].function_call.name
         function_args == frame[p].function_call.args
         answers == ExternalAnswers(function_name)
     IN \E environ \in SUBSET EnvKeys : \E i \in DOMAIN answers :
          LET r == CallExternalApi(function_name, function_args, TheConversation,
                                   environ, answers[i], events)
          IN IF r.raised
             THEN /\ Raise(p, Wrapped("ToolError"), "ToolError", frame[p].user_message)
                  /\ events' = r.events
             ELSE /\ frame' = [frame EXCEPT
                       ![p].function_result = r.result,
                       ![p].tool_failed =
                          ToolFailure(function_name, function_args,
                                      TheConversation, environ, answers[i]),
                       ![p].weather_data_from_api =
                          KeepWeatherData(@, function_name, r.result),
                       ![p].contents =
                          @ \o <<frame[p].response_content,
                                 FunctionResponse(function_name, r.result)>>]
                  /\ events' = r.events
                  /\ pc' = [pc EXCEPT ![p] = "generate"]
                  /\ UNCHANGED outcome
  /\ UNCHANGED <<messages, direct, users, agents, conversations>>

\* The end of the call: store the reply, classify it, return.
Reply(p) ==
  /\ pc[p] = "reply"
  /\ LET assistant_message == frame[p].assistant_message
     IN IF IsNone(assistant_message)
        THEN /\ Raise(p, Wrapped("IntegrityError"), "IntegrityError",
                      frame[p].user_message)
             /\ UNCHANGED messages
        ELSE LET mood == DetermineMood(assistant_message.v,
                                       frame[p].weather_data_from_api)
             IN /\ messages' = Append(messages,
                      [role |-> "assistant", content |-> assistant_message.v])
                /\ IF mood = "TypeError"
                   THEN Raise(p, Wrapped(mood), mood, frame[p].user_message)
                   ELSE /\ outcome' = [outcome EXCEPT ![p] =
                             [kind |-> "returned", cause |-> "",
                              message |-> assistant_message, mood |-> mood,
                              user_message |-> frame[p].user_message,
                              before |-> frame[p].before,
                              network |-> frame[p].network,
                              calls |-> frame[p].calls,
                              weather_data |-> frame[p].weather_data_from_api]]
                        /\ pc' = [pc EXCEPT ![p] = "idle"]
                        /\ frame' = [frame EXCEPT ![p] = NoFrame]
  /\ UNCHANGED <<events, direct, users, agents, conversations>>

\* A direct call of _call_external_api with the arguments direct names,
\* with or without a conversation.
DirectDispatch ==
  /\ ~direct.called
  /\ direct.function_name # "none"
  /\ LET r == CallExternalApi(direct.function_name, direct.args,
                              direct.conversation, direct.environ, direct.ext,
                              events)
     IN /\ direct' = [direct EXCEPT !.called = TRUE, !.raised = r.raised,
                                    !.result = IF r.raised THEN None ELSE r.result,
                                    !.created = Len(r.events) - Len(events)]
        /\ events' = r.events
  /\ UNCHANGED <<messages, pc, frame, outcome, users, agents, conversations>>

\* ------------------------------------------------------- specifications

\* One request at a time on the conversation: the caller serializes.
Next ==
  \/ \E user_message \in UserMessages : Call(1, user_message)
  \/ AddUserMessage(1)
  \/ GenerateFails(1)
  \/ GenerateAnswers(1, TextResponses \o CallResponses, MaxToolCalls)
  \/ Dispatch(1)
  \/ Reply(1)

Spec == Init /\ [][Next]_vars

\* Two requests on the conversation at once, as two threads of the server
\* run them: neither send_message nor receive takes a lock.  The model
\* answers with a text or one tool call.
ConcResponses == <<<<TextPart(REPLY_PLAIN)>>, <<CallPart(FC_NOW)>>>>

ConcNext ==
  \E p \in Procs :
    \/ \E user_message \in {<<"h","i">>, <<" ","o","k"," ">>} : Call(p, user_message)
    \/ AddUserMessage(p)
    \/ GenerateFails(p)
    \/ GenerateAnswers(p, ConcResponses, MaxToolCalls)
    \/ Dispatch(p)
    \/ Reply(p)

ConcSpec == Init /\ [][ConcNext]_vars

\* A model that requests a tool in every response.
StubResponses == <<<<CallPart(FC_NOW)>>, <<CallPart(FC_UNKNOWN)>>>>

LoopNext ==
  \/ \E user_message \in UserMessages : Call(1, user_message)
  \/ AddUserMessage(1)
  \/ GenerateAnswers(1, StubResponses, MaxStubCalls)
  \/ Dispatch(1)

LoopSpec == Init /\ [][LoopNext]_vars

\* _call_external_api as a function of its arguments and of the answers of
\* the outside world.
DispatchInit ==
  /\ messages = <<>>
  /\ events = <<>>
  /\ pc = [p \in Procs |-> "idle"]
  /\ frame = [p \in Procs |-> NoFrame]
  /\ outcome = [p \in Procs |-> NoOutcome]
  /\ users = StoredUsers
  /\ agents = StoredAgents
  /\ conversations = <<TheConversation>>
  /\ \E function_name \in ToolNames : \E a \in DOMAIN FunctionCalls :
     \E conversation \in {None, TheConversation} : \E environ \in SUBSET EnvKeys :
     \E i \in DOMAIN ExternalAnswers(function_name) :
       direct = [NoDirect EXCEPT !.function_name = function_name,
                                 !.args = FunctionCalls[a].args,
                                 !.conversation = conversation,
                                 !.environ = environ,
                                 !.ext = ExternalAnswers(function_name)[i]]

DispatchNext == DirectDispatch

DispatchSpec == DispatchInit /\ [][DispatchNext]_vars

\* A model that asks for the clock or the weather, several times in a
\* turn, before it answers with a text; one response asks for both after
\* a text, the clock first.
TurnResponses ==
  << <<TextPart(REPLY_PLAIN)>>, <<CallPart(FunctionCalls[1])>>,
     <<CallPart(FunctionCalls[3])>>,
     <<TextPart(REPLY_SUN), CallPart(FunctionCalls[1]), CallPart(FunctionCalls[3])>> >>

TurnNext ==
  \/ \E user_message \in {<<"h","i">>, <<" ","o","k"," ">>} : Call(1, user_message)
  \/ AddUserMessage(1)
  \/ GenerateFails(1)
  \/ GenerateAnswers(1, TurnResponses, MaxTurnCalls)
  \/ Dispatch(1)
  \/ Reply(1)

TurnSpec == Init /\ [][TurnNext]_vars

\* ------------------------------------------------- the event endpoints

\* The authenticated users who call the event endpoints.
EventUsers == {"alice", "bob"}

\* A datetime as the serializer and the admin form hand it to the table.
EVENT_DATE == [date |-> "2025-10-06T10:00:00", utcoffset |-> "+00:00"]

\* The row the admin form saves for a user and an event name.
AdminEventRow(user, event_name) ==
  [user |-> user, conversation |-> None, event_name |-> PyStr(event_name),
   event_date |-> EVENT_DATE, location_name |-> PyStr(""),
   latitude |-> None, longitude |-> None, weather_data |-> None,
   temperature |-> None, precipitation |-> None, wind_speed |-> None]

\* The add form of EventAdmin: staff save an Event for a user.
AdminAddEvent ==
  /\ Len(events) < MaxEvents
  /\ \E user \in EventUsers :
       LET c == EventCreate(events, AdminEventRow(user, "Picnic"))
       IN /\ events' = c.events
          /\ direct' = [NoDirect EXCEPT !.function_name = "EventAdmin.add",
                                        !.called = TRUE,
                                        !.created = Len(c.events) - Len(events)]
  /\ UNCHANGED <<messages, pc, frame, outcome, users, agents, conversations>>

\* The queryset without the filter on the user.
EventsQuerysetAll(user, rows) == rows

\* EventViewSet.get_queryset: the events of the requesting user.
EventsQueryset(user, rows) == SelectSeq(rows, LAMBDA e : e.user = user)

\* The fields of EventSerializer a request may write.
EventWritable ==
  {"event_name", "event_date", "location_name", "latitude", "longitude",
   "weather_data", "temperature", "precipitation", "wind_speed"}

\* The fields EventSerializer requires of a full (not partial) request.
EventRequired == {"event_name", "event_date"}

\* The request bodies of the model: a new name, a blank name, a name with
\* a date, and a read-only field alone.
EventData ==
  << [event_name |-> PyStr("Boda")],
     [event_name |-> PyStr("")],
     [event_name |-> PyStr("Boda"), event_date |-> EVENT_DATE],
     [user_email |-> PyStr("bob@example.com")] >>

\* EventSerializer.is_valid on a request body.
EventDataValid(data, partial) ==
  /\ partial \/ EventRequired \subseteq DOMAIN data
  /\ "event_name" \in DOMAIN data => data["event_name"].v # ""

\* The writable fields of a valid request body.
EventValidated(data) ==
  [k \in DOMAIN data \cap EventWritable |-> data[k]]

\* The exchange an event endpoint leaves in direct.
EventExchange(function_name, user, id, data, status) ==
  [NoDirect EXCEPT !.function_name = function_name,
                   !.args = [user |-> user, id |-> id, data |-> data],
                   !.called = TRUE,
                   !.result = [status |-> status]]

\* POST /api/events/: CreateModelMixin.create saves the validated data;
\* perform_create is not overridden, so no user is given to the row.
EventsCreate ==
  /\ \E user \in EventUsers : \E d \in DOMAIN EventData :
       LET data == EventData[d]
       IN IF ~EventDataValid(data, FALSE)
          THEN /\ direct' = EventExchange("EventViewSet.create", user, 0, data, 400)
               /\ UNCHANGED events
          ELSE LET c == EventCreate(events, EventValidated(data))
               IN /\ events' = c.events
                  /\ direct' = EventExchange("EventViewSet.create", user, 0, data,
                                             IF c.raised THEN 500 ELSE 201)
  /\ UNCHANGED <<messages, pc, frame, outcome, users, agents, conversations>>

\* PUT and PATCH /api/events/{id}/: UpdateModelMixin.update on the event of
\* that id in the queryset.
EventsUpdate ==
  /\ \E user \in EventUsers : \E id \in 1..MaxEvents : \E d \in DOMAIN EventData :
     \E partial \in BOOLEAN :
       LET data == EventData[d]
           name == IF partial THEN "EventViewSet.partial_update"
                   ELSE "EventViewSet.update"
           found == \E i \in DOMAIN EventsQueryset(user, events) :
                      EventsQueryset(user, events)[i].id = id
       IN IF ~found
          THEN /\ direct' = EventExchange(name, user, id, data, 404)
               /\ UNCHANGED events
          ELSE IF ~EventDataValid(data, partial)
          THEN /\ direct' = EventExchange(name, user, id, data, 400)
               /\ UNCHANGED events
          ELSE /\ events' =
                    [i \in DOMAIN events |->
                       IF events[i].id = id
                       THEN EventValidated(data) @@ events[i]
                       ELSE events[i]]
               /\ direct' = EventExchange(name, user, id, data, 200)
  /\ UNCHANGED <<messages, pc, frame, outcome, users, agents, conversations>>

\* DELETE /api/events/{id}/: DestroyModelMixin.destroy.
EventsDestroy ==
  /\ \E user \in EventUsers : \E id \in 1..MaxEvents :
       LET found == \E i \in DOMAIN EventsQueryset(user, events) :
                      EventsQueryset(user, events)[i].id = id
       IN IF ~found
          THEN /\ direct' = EventExchange("EventViewSet.destroy", user, id,
                                          EmptyDict, 404)
               /\ UNCHANGED events
          ELSE /\ events' = SelectSeq(events, LAMBDA e : e.id # id)
               /\ direct' = EventExchange("EventViewSet.destroy", user, id,
                                          EmptyDict, 204)
  /\ UNCHANGED <<messages, pc, frame, outcome, users, agents, conversations>>

\* The model answers with a text or asks for save_event.
EventResponses ==
  << <<TextPart(REPLY_PLAIN)>>,
     <<CallPart(FC("save_event", [event_name |-> EVENT_NAME, event_date |-> DATE_Z]))>> >>

\* One turn of the conversation next to the event endpoints and the admin
\* form.
EventNext ==
  \/ messages = <<>> /\ Call(1, <<"h","i">>)
  \/ AddUserMessage(1)
  \/ GenerateAnswers(1, EventResponses, MaxToolCalls)
  \/ Dispatch(1)
  \/ Reply(1)
  \/ AdminAddEvent
  \/ EventsCreate
  \/ EventsUpdate
  \/ EventsDestroy

EventSpec == Init /\ [][EventNext]_vars

\* _save_event as a function of its arguments: the event name, the event
\* date and the weather_data string are each given or left out.
SaveArgs ==
  { n @@ d @@ w :
      n \in {EmptyDict, [event_name |-> EVENT_NAME]},
      d \in {EmptyDict} \cup {[event_date |-> EventDates[i]] : i \in DOMAIN EventDates},
      w \in {EmptyDict} \cup
            {[weather_data |-> PyStr(WeatherStrings[i])] : i \in DOMAIN WeatherStrings} }

SaveInit ==
  /\ messages = <<>>
  /\ events = <<>>
  /\ pc = [p \in Procs |-> "idle"]
  /\ frame = [p \in Procs |-> NoFrame]
  /\ outcome = [p \in Procs |-> NoOutcome]
  /\ users = StoredUsers
  /\ agents = StoredAgents
  /\ conversations = <<TheConversation>>
  /\ \E args \in SaveArgs :
       direct = [NoDirect EXCEPT !.function_name = "_save_event",
                                 !.args = args,
                                 !.conversation = TheConversation]
                @@ [weather_data |-> [t |-> "unbound"],
                    metrics |-> [t |-> "unbound"]]

\* A direct call of _save_event; weather_data is the local of that name
\* when Event.objects.create is reached, metrics the five locals of the
\* extraction.
DirectSaveEvent ==
  /\ ~direct.called
  /\ direct.function_name = "_save_event"
  /\ LET r == SaveEvent(direct.conversation, direct.args, events)
         event_date_str == Get(direct.args, "event_date", None)
         reached == event_date_str.t = "str"
                    /\ ~FromIsoFormat(ReplaceZ(event_date_str.v)).raised
     IN /\ direct' = [direct EXCEPT
             !.called = TRUE, !.raised = r.raised,
             !.result = IF r.raised THEN None ELSE r.result,
             !.created = Len(r.events) - Len(events),
             !.weather_data =
                IF reached
                THEN EventWeather(Get(direct.args, "weather_data", None)).weather_data
                ELSE @,
             !.metrics =
                IF reached
                THEN EventWeather(Get(direct.args, "weather_data", None)).metrics
                ELSE @]
        /\ events' = r.events
  /\ UNCHANGED <<messages, pc, frame, outcome, users, agents, conversations>>

SaveNext == DirectSaveEvent

SaveSpec == SaveInit /\ [][SaveNext]_vars

\* ------------------------------------------------- the password reset

\* PasswordResetTokenGenerator.make_token: the token is bound to the user
\* and to the password the user has when it is made.
MakeToken(email, rows) ==
  [user |-> email, password |-> rows[email].password, expired |-> FALSE]

\* check_token accepting a token made for an earlier password.
CheckTokenAnyPassword(email, rows, token) ==
  token.user = email /\ ~token.expired

\* PasswordResetTokenGenerator.check_token for the user of that email.
CheckToken(email, rows, token) ==
  token = MakeToken(email, rows)

\* The tokens of a confirm request: made now for either user, made for
\* the password ana had at first, made for ana and expired, and a string
\* that is no token.
ResetTokens(rows) ==
  << MakeToken("ana@example.com", rows),
     MakeToken("gus@example.com", rows),
     MakeToken("ana@example.com", StoredUsers),
     [MakeToken("ana@example.com", rows) EXCEPT !.expired = TRUE],
     [user |-> "", password |-> <<"invalid-token">>, expired |-> FALSE] >>

\* The passwords of a confirm request; one is blank.
ResetPasswords == {"NewPass123", "NewPass1234", ""}

\* The emails of a confirm request: two users, nobody's, and no email.
ResetEmails ==
  {"ana@example.com", "gus@example.com", "no-exists@mail.com", "not-an-email"}

\* The field checks of PasswordResetConfirmSerializer: no password blank
\* (the tokens of the model never are), the email an email; then
\* validate(): the two passwords are equal.
ResetConfirmValid(data) ==
  /\ data.new_password # ""
  /\ data.password_confirm # ""
  /\ data.email # "not-an-email"
  /\ data.new_password = data.password_confirm

\* PasswordResetConfirmView.post: is_valid, then confirm_password_reset on
\* the request data; before is the user table the request found.
ResetConfirm ==
  /\ \E t \in DOMAIN ResetTokens(users) : \E new_password \in ResetPasswords :
     \E password_confirm \in ResetPasswords : \E email \in ResetEmails :
       LET data == [token |-> ResetTokens(users)[t], new_password |-> new_password,
                    password_confirm |-> password_confirm, email |-> email]
           exchange(status) ==
             [NoDirect EXCEPT !.function_name = "PasswordResetConfirmView.post",
                              !.args = data, !.called = TRUE,
                              !.result = [status |-> status]]
             @@ [before |-> users]
       IN IF ~ResetConfirmValid(data)
          THEN /\ direct' = exchange(400)
               /\ UNCHANGED users
          ELSE IF email \notin DOMAIN users
          THEN /\ direct' = exchange(500)
               /\ UNCHANGED users
          ELSE IF ~CheckToken(email, users, data.token)
          THEN /\ direct' = exchange(400)
               /\ UNCHANGED users
          ELSE /\ users' = [users EXCEPT ![email].password =
                                           MakePassword(new_password)]
               /\ direct' = exchange(200)
  /\ UNCHANGED <<messages, events, pc, frame, outcome, agents, conversations>>

\* The email strings of a reset request, written as their pieces: the
\* email of either user, nobody's, the email of a user after a blank, a
\* string that is no email, and the empty string.
RequestEmails ==
  << <<"ana@example.com">>, <<"gus@example.com">>, <<"no-exists@mail.com">>,
     <<" ", "ana@example.com">>, <<"not-an-email">>, <<>> >>

\* The strings EmailValidator accepts, among those of the model.
ValidEmails == {"ana@example.com", "gus@example.com", "no-exists@mail.com"}

\* objects.filter(email=email).exists(): the lookup is by the exact string.
UserExists(rows, email) == Len(email) = 1 /\ email[1] \in DOMAIN rows

\* PasswordResetSerializer.is_valid: the EmailField trims the string,
\* refuses a blank one and one that is no email; validate() then looks the
\* trimmed email up and refuses nobody's and a user with a social account.
PasswordResetValidate(data, rows) ==
  LET email == Strip(data.email)
  IN IF email = <<>> THEN [valid |-> FALSE, code |-> "blank"]
     ELSE IF Len(email) # 1 \/ email[1] \notin ValidEmails
     THEN [valid |-> FALSE, code |-> "invalid"]
     ELSE IF ~UserExists(rows, email)
     THEN [valid |-> FALSE, code |-> "authorization"]
     ELSE IF rows[email[1]].socialaccount_set # {}
     THEN [valid |-> FALSE, code |-> "social_account"]
     ELSE [valid |-> TRUE, code |-> ""]

\* What send_mail may do: deliver one message, deliver none, or raise.
MailAnswers ==
  << [kind |-> "sent", n |-> 1], [kind |-> "sent", n |-> 0],
     [kind |-> "exception", n |-> 0] >>

\* send_password_reset_email on the data it is handed: the user is looked
\* up by the email of that data, the token made and the mail sent;
\* EmailSender.send raises SMTPException when no message was delivered.
SendPasswordResetEmail(validated_data, rows, mail) ==
  LET email == validated_data.email
  IN IF ~UserExists(rows, email)
     THEN [raised |-> TRUE, error |-> "DoesNotExist", sent |-> <<>>]
     ELSE IF mail.kind = "exception" \/ mail.n = 0
     THEN [raised |-> TRUE, error |-> "SMTPException", sent |-> <<>>]
     ELSE [raised |-> FALSE, error |-> "",
           sent |-> <<[to |-> email[1], token |-> MakeToken(email[1], rows)]>>]

\* PasswordResetView.post: is_valid, then send_password_reset_email on the
\* request data; an exception of the latter leaves the view (500).  sent
\* holds the reset emails the request delivered.
PasswordReset ==
  /\ \E i \in DOMAIN RequestEmails : \E m \in DOMAIN MailAnswers :
       LET data == [email |-> RequestEmails[i]]
           v == PasswordResetValidate(data, users)
           exchange(status, code, sent) ==
             [NoDirect EXCEPT !.function_name = "PasswordResetView.post",
                              !.args = data, !.called = TRUE,
                              !.ext = MailAnswers[m],
                              !.result = [status |-> status, code |-> code]]
             @@ [before |-> users, sent |-> sent]
       IN IF ~v.valid
          THEN direct' = exchange(400, v.code, <<>>)
          ELSE LET s == SendPasswordResetEmail(data, users, MailAnswers[m])
               IN direct' = exchange(IF s.raised THEN 500 ELSE 200, s.error, s.sent)
  /\ UNCHANGED <<messages, events, pc, frame, outcome, users, agents,
                 conversations>>

ResetNext == ResetConfirm \/ PasswordReset

ResetSpec == Init /\ [][ResetNext]_vars

\* ------------------------------------------- agent and conversations

\* Agent.objects.filter(agent_type=...): the rows of the weather agent.
WeatherAgents(rows) ==
  SelectSeq(rows, LAMBDA a : a.agent_type = WEATHER_AGENT_TYPE)

\* The instance as it was fetched: no assignment before save().
WithSystemPromptKept(agent) == agent

\* agent.system_prompt = cls.SYSTEM_PROMPT on the fetched instance.
WithSystemPrompt(agent) == [agent EXCEPT !.system_prompt = SYSTEM_PROMPT]

\* agent.save(): the row of that id gets the fields of the instance.
AgentSave(rows, agent) ==
  [i \in DOMAIN rows |-> IF rows[i].id = agent.id THEN agent ELSE rows[i]]

\* The locals of a create_conversation or get_or_create_agent call, with
\* the Agent table the call found (before).
AgentFrame(op, user, rows) ==
  [op |-> op, user |-> user, agent |-> None, created |-> FALSE, before |-> rows]

AgentOutcome(kind, f, conversation) ==
  [kind |-> kind, op |-> f.op, agent |-> f.agent, created |-> f.created,
   before |-> f.before, conversation |-> conversation]

\* ConversationViewSet.create calls create_conversation for the requesting
\* user; get_or_create_agent is also called on its own.
AgentCall(p) ==
  /\ pc[p] = "idle"
  /\ \E op \in {"get_or_create_agent", "create_conversation"} :
     \E user \in EventUsers :
       /\ op = "create_conversation"
            => Len(conversations)
               + Cardinality({q \in Procs : pc[q] # "idle"}) < MaxConversations
       /\ frame' = [frame EXCEPT ![p] = AgentFrame(op, user, agents)]
  /\ pc' = [pc EXCEPT ![p] = "get_or_create"]
  /\ outcome' = [outcome EXCEPT ![p] = NoOutcome]
  /\ UNCHANGED <<messages, events, direct, users, agents, conversations>>

\* The lookup of Agent.objects.get_or_create: one row is the agent, several
\* raise MultipleObjectsReturned, none leads to the insert.
GetOrCreateLookup(p) ==
  /\ pc[p] = "get_or_create"
  /\ LET found == WeatherAgents(agents)
     IN IF Len(found) = 1
        THEN /\ frame' = [frame EXCEPT ![p].agent = found[1]]
             /\ pc' = [pc EXCEPT ![p] = "save_agent"]
             /\ UNCHANGED outcome
        ELSE IF Len(found) > 1
        THEN /\ outcome' = [outcome EXCEPT ![p] =
                  AgentOutcome("MultipleObjectsReturned", frame[p], None)]
             /\ pc' = [pc EXCEPT ![p] = "idle"]
             /\ frame' = [frame EXCEPT ![p] = NoFrame]
        ELSE /\ pc' = [pc EXCEPT ![p] = "create_agent"]
             /\ UNCHANGED <<frame, outcome>>
  /\ UNCHANGED <<messages, events, direct, users, agents, conversations>>

\* The insert of get_or_create after a lookup that found no row: agent_type
\* is not unique, so the table takes the row whatever it holds by now.
GetOrCreateInsert(p) ==
  /\ pc[p] = "create_agent"
  /\ LET agent == WeatherAgentRow(Len(agents) + 1, SYSTEM_PROMPT)
     IN /\ agents' = Append(agents, agent)
        /\ frame' = [frame EXCEPT ![p].agent = agent, ![p].created = TRUE]
  /\ pc' = [pc EXCEPT ![p] = "agent_returned"]
  /\ UNCHANGED <<messages, events, outcome, direct, users, conversations>>

\* `if not created`: the prompt is assigned and the instance saved.
SaveAgent(p) ==
  /\ pc[p] = "save_agent"
  /\ LET agent == WithSystemPrompt(frame[p].agent)
     IN /\ agents' = AgentSave(agents, agent)
        /\ frame' = [frame EXCEPT ![p].agent = agent]
  /\ pc' = [pc EXCEPT ![p] = "agent_returned"]
  /\ UNCHANGED <<messages, events, outcome, direct, users, conversations>>

\* get_or_create_agent returns; create_conversation inserts the
\* Conversation of the user with the agent and returns it.
AgentReturn(p) ==
  /\ pc[p] = "agent_returned"
  /\ IF frame[p].op = "get_or_create_agent"
     THEN /\ outcome' = [outcome EXCEPT ![p] =
               AgentOutcome("returned", frame[p], None)]
          /\ UNCHANGED conversations
     ELSE LET conversation ==
                [t |-> "conversation", id |-> Len(conversations) + 1,
                 user |-> frame[p].user, agent |-> frame[p].agent.id,
                 title |-> "Weather Consultation"]
          IN /\ conversations' = Append(conversations, conversation)
             /\ outcome' = [outcome EXCEPT ![p] =
                  AgentOutcome("returned", frame[p], conversation)]
  /\ pc' = [pc EXCEPT ![p] = "idle"]
  /\ frame' = [frame EXCEPT ![p] = NoFrame]
  /\ UNCHANGED <<messages, events, direct, users, agents>>

\* The Agent table a release may find: empty, or the weather agent with
\* the prompt of an earlier release or of this one; no conversation yet.
AgentInit ==
  /\ messages = <<>>
  /\ events = <<>>
  /\ pc = [p \in Procs |-> "idle"]
  /\ frame = [p \in Procs |-> NoFrame]
  /\ outcome = [p \in Procs |-> NoOutcome]
  /\ users = StoredUsers
  /\ direct = NoDirect
  /\ agents \in {<<>>, <<WeatherAgentRow(1, OLD_PROMPT)>>, StoredAgents}
  /\ conversations = <<>>

\* Requests of two threads of the server, interleaved at their statements.
AgentNext ==
  \E p \in Procs :
    \/ AgentCall(p)
    \/ GetOrCreateLookup(p)
    \/ GetOrCreateInsert(p)
    \/ SaveAgent(p)
    \/ AgentReturn(p)

AgentSpec == AgentInit /\ [][AgentNext]_vars

\* ------------------------------------------------------ the transports

\* The text frames a socket client sends and what json.loads makes of
\* them: no JSON, JSON that is no object, objects without a message, with
\* an empty, a blank, a numeric and a plain one.
FrameLoads(text_data) ==
  CASE text_data = "hola" -> [raised |-> TRUE, v |-> None]
    [] text_data = "[1]"  -> [raised |-> FALSE, v |-> List(<<Num(10)>>)]
    [] text_data = "{}"   -> [raised |-> FALSE, v |-> Dict(EmptyDict)]
    [] text_data = "{\"message\": \"\"}"
         -> [raised |-> FALSE, v |-> Dict([message |-> Text(<<>>)])]
    [] text_data = "{\"message\": \" \"}"
         -> [raised |-> FALSE, v |-> Dict([message |-> Text(<<" ">>)])]
    [] text_data = "{\"message\": 5}"
         -> [raised |-> FALSE, v |-> Dict([message |-> Num(50)])]
    [] text_data = "{\"message\": \"hi\"}"
         -> [raised |-> FALSE, v |-> Dict([message |-> Text(<<"h","i">>)])]

InboundFrames ==
  << "hola", "[1]", "{}", "{\"message\": \"\"}", "{\"message\": \" \"}",
     "{\"message\": 5}", "{\"message\": \"hi\"}" >>

\* The conversation ids a request names: the conversation, and no row's.
ConversationIds == {1, 7}

\* Conversation.objects.get(id=conversation_id): the row, None for
\* DoesNotExist.
GetConversation(rows, conversation_id) ==
  IF \E i \in DOMAIN rows : rows[i].id = conversation_id
  THEN rows[CHOOSE i \in DOMAIN rows : rows[i].id = conversation_id]
  ELSE None

\* ConversationViewSet.get_queryset: the conversations of the requesting
\* user.
ConversationsQueryset(user, rows) == SelectSeq(rows, LAMBDA c : c.user = user)

\* The exchange a transport leaves in direct: the request, the stored
\* messages it found (before), the message handed to process_user_message,
\* where the exchange stands (stage) and what went out (out): the frames
\* sent on the socket, or the one HTTP response.
Exchange(function_name, user, conversation_id, data, message, stage, out) ==
  [NoDirect EXCEPT !.function_name = function_name,
                   !.args = [user |-> user, conversation_id |-> conversation_id,
                             data |-> data],
                   !.called = (stage # "processing"),
                   !.raised = (stage = "raised")]
  @@ [before |-> messages, message |-> message, stage |-> stage, out |-> out]

\* An exchange waits for process_user_message.
InFlight == "stage" \in DOMAIN direct /\ direct.stage = "processing"

ErrorFrame(error) == [error |-> error]

\* ChatConsumer.receive up to the call of process_user_message: json.loads
\* and data.get stand before the try block, so what they raise leaves the
\* consumer without a frame; an empty message and what get_conversation or
\* the guard of process_user_message raise are answered with an error
\* frame.  connect() keeps the conversation_id of the URL and checks no
\* user.
WsReceive ==
  /\ pc[1] = "idle" /\ ~InFlight
  /\ Len(messages) + 2 <= MaxMessages
  /\ \E user \in EventUsers : \E conversation_id \in ConversationIds :
     \E i \in DOMAIN InboundFrames :
       LET text_data == InboundFrames[i]
           data == FrameLoads(text_data)
           ex(message, stage, out) ==
             Exchange("ChatConsumer.receive", user, conversation_id, text_data,
                      message, stage, out)
       IN IF data.raised
          THEN direct' = ex(None, "raised", <<>>)
          ELSE IF data.v.t # "dict"
          THEN direct' = ex(None, "raised", <<>>)
          ELSE LET message == Get(data.v.v, "message", Text(<<>>))
               IN IF ~Truthy(message)
                  THEN direct' = ex(message, "done",
                                    <<ErrorFrame("Mensaje vacio")>>)
                  ELSE IF IsNone(GetConversation(conversations, conversation_id))
                  THEN direct' = ex(message, "done", <<ErrorFrame("DoesNotExist")>>)
                  ELSE IF message.t # "text"
                  THEN direct' = ex(message, "done", <<ErrorFrame("AttributeError")>>)
                  ELSE direct' = ex(message, "processing", <<>>)
  /\ outcome' = [outcome EXCEPT ![1] = NoOutcome]
  /\ UNCHANGED <<messages, events, pc, frame, users, agents, conversations>>

\* The request bodies of send_message: a message, one with blanks around
\* it, an empty one, a blank one, and none.
MessageBodies ==
  << [message |-> Text(<<"h","i">>)], [message |-> Text(<<" ","o","k"," ">>)],
     [message |-> Text(<<>>)], [message |-> Text(<<" ">>)], EmptyDict >>

\* ChatMessageSerializer.is_valid: message is required, and a CharField
\* refuses a string that is blank once trimmed.
ChatMessageValid(data) ==
  "message" \in DOMAIN data /\ Strip(data["message"].v) # <<>>

\* ConversationViewSet.send_message up to the call of process_user_message:
\* get_object looks the id up among the conversations of the requesting
\* user (404), the serializer validates (400) and trims the message.
SendMessage ==
  /\ pc[1] = "idle" /\ ~InFlight
  /\ Len(messages) + 2 <= MaxMessages
  /\ \E user \in EventUsers : \E conversation_id \in ConversationIds :
     \E i \in DOMAIN MessageBodies :
       LET data == MessageBodies[i]
           ex(message, stage, out) ==
             Exchange("ConversationViewSet.send_message", user, conversation_id,
                      data, message, stage, out)
       IN IF IsNone(GetConversation(ConversationsQueryset(user, conversations),
                                    conversation_id))
          THEN direct' = ex(None, "done", <<[status |-> 404]>>)
          ELSE IF ~ChatMessageValid(data)
          THEN direct' = ex(None, "done", <<[status |-> 400]>>)
          ELSE direct' = ex(Text(Strip(data["message"].v)), "processing", <<>>)
  /\ outcome' = [outcome EXCEPT ![1] = NoOutcome]
  /\ UNCHANGED <<messages, events, pc, frame, users, agents, conversations>>

\* The call of process_user_message by either transport.
TransportProcess ==
  /\ InFlight
  /\ outcome[1].kind = "none"
  /\ Call(1, direct.message.v)

\* The end of ChatConsumer.receive: the result goes out as an
\* agent_message frame, an exception as an error frame.
WsSend ==
  /\ InFlight /\ direct.function_name = "ChatConsumer.receive"
  /\ pc[1] = "idle" /\ outcome[1].kind # "none"
  /\ direct' = [direct EXCEPT
       !.stage = "done", !.called = TRUE,
       !.out = IF outcome[1].kind = "returned"
               THEN <<[type |-> "agent_message",
                       message |-> [message |-> outcome[1].message,
                                    mood |-> outcome[1].mood]]>>
               ELSE <<ErrorFrame(outcome[1].kind)>>]
  /\ UNCHANGED <<messages, events, pc, frame, outcome, users, agents,
                 conversations>>

\* The end of send_message: the result is answered 200; an exception of
\* process_user_message leaves the view (500).
SendMessageRespond ==
  /\ InFlight /\ direct.function_name = "ConversationViewSet.send_message"
  /\ pc[1] = "idle" /\ outcome[1].kind # "none"
  /\ direct' = [direct EXCEPT
       !.stage = "done", !.called = TRUE,
       !.out = IF outcome[1].kind = "returned"
               THEN <<[status |-> 200,
                       user_message |-> outcome[1].user_message,
                       assistant_message |-> [message |-> outcome[1].message,
                                              mood |-> outcome[1].mood],
                       conversation_id |-> direct.args.conversation_id]>>
               ELSE <<[status |-> 500]>>]
  /\ UNCHANGED <<messages, events, pc, frame, outcome, users, agents,
                 conversations>>

\* The model answers with a text, with no part at all, or asks for the
\* weather.
TransportResponses ==
  << <<TextPart(REPLY_SUN)>>, <<>>, <<CallPart(FunctionCalls[3])>> >>

\* Requests on either transport, one at a time.
TransportNext ==
  \/ WsReceive
  \/ SendMessage
  \/ TransportProcess
  \/ AddUserMessage(1)
  \/ GenerateFails(1)
  \/ GenerateAnswers(1, TransportResponses, MaxToolCalls)
  \/ Dispatch(1)
  \/ Reply(1)
  \/ WsSend
  \/ SendMessageRespond

TransportSpec == Init /\ [][TransportNext]_vars

\* ------------------------------------------------ the classifier alone

\* The reply texts of a direct _determine_mood call: with a success or a
\* loading marker (alone, in capitals, next to weather words), with
\* weather words only, and without any.
MoodTexts ==
  << REPLY_SAVED,
     <<"R","E","G","I","S","T","R","A","D","O">>,
     <<"G","u","a","r","d","a","d","o",","," ","l","l","u","v","i","a"," ","y"," ","n","i","e","v","e">>,
     <<"B","u","s","c","a","n","d","o"," ","n","i","e","v","e">>,
     REPLY_PLAIN,
     REPLY_SUN,
     <<"N","i","e","v","e">>,
     <<"H","e","l","a","d","o">>,
     <<"T","o","r","m","e","n","t","a">> >>

\* A parameter the payload does not carry.
Absent == [t |-> "absent"]

\* The first values of the payload's parameters, in tenths: degrees,
\* millimetres, km/h, percent, centimetres.  One temperature is a string.
TemperatureValues ==
  <<Absent, Num(-30), Num(0), Num(180), Num(220), Num(280), Num(290), Num(360),
    Str(<<"n","/","a">>)>>

PrecipitationValues ==
  <<Absent, Num(0), Num(2), Num(3), Num(5), Num(6), Num(50), Num(60)>>

WindValues == <<Absent, Num(0), Num(400), Num(450), Num(510)>>

SnowProbValues == <<Absent, Num(500), Num(510)>>

SnowDepthValues == <<Absent, Num(0), Num(1)>>

\* The entry of the "data" list for a parameter, none when it is absent.
ParamEntry(name, value) ==
  IF value = Absent THEN <<>> ELSE <<Param(name, value)>>

\* The provider's payload with the given first values.
MoodPayload(t, p, w, ps, sd) ==
  Dict([data |-> List(ParamEntry(T2M, t) \o ParamEntry(PRECIP1H, p)
                      \o ParamEntry(WIND10M, w) \o ParamEntry(PROBSNOW, ps)
                      \o ParamEntry(SNOWDEPTH, sd))])

\* _determine_mood as a function of the reply text and the payload: a
\* payload is left out (None), empty, or carries a list of parameters.
MoodInit ==
  /\ messages = <<>>
  /\ events = <<>>
  /\ pc = [p \in Procs |-> "idle"]
  /\ frame = [p \in Procs |-> NoFrame]
  /\ outcome = [p \in Procs |-> NoOutcome]
  /\ users = StoredUsers
  /\ agents = StoredAgents
  /\ conversations = <<TheConversation>>
  /\ \E m \in DOMAIN MoodTexts :
       \/ \E t \in DOMAIN TemperatureValues : \E p \in DOMAIN PrecipitationValues :
          \E w \in DOMAIN WindValues : \E ps \in DOMAIN SnowProbValues :
          \E sd \in DOMAIN SnowDepthValues :
            direct = [NoDirect EXCEPT
                        !.function_name = "_determine_mood",
                        !.args = [assistant_message |-> MoodTexts[m],
                                  weather_data |->
                                    MoodPayload(TemperatureValues[t],
                                                PrecipitationValues[p],
                                                WindValues[w], SnowProbValues[ps],
                                                SnowDepthValues[sd])]]
                     @@ [mood |-> ""]
       \/ \E i \in 1..2 :
            direct = [NoDirect EXCEPT
                        !.function_name = "_determine_mood",
                        !.args = [assistant_message |-> MoodTexts[m],
                                  weather_data |-> <<None, Dict(EmptyDict)>>[i]]]
                     @@ [mood |-> ""]

\* A direct call of _determine_mood: it returns a mood or raises, and
\* reads and writes no stored row.
DirectMood ==
  /\ ~direct.called
  /\ direct.function_name = "_determine_mood"
  /\ LET r == DetermineMood(direct.args.assistant_message, direct.args.weather_data)
     IN direct' = [direct EXCEPT !.called = TRUE,
                                 !.raised = (r = "TypeError"),
                                 !.mood = IF r = "TypeError" THEN "" ELSE r]
  /\ UNCHANGED <<messages, events, pc, frame, outcome, users, agents,
                 conversations>>

MoodNext == DirectMood

MoodSpec == MoodInit /\ [][MoodNext]_vars

\* ------------------------------------------------------- both extractors

\* The names a precipitation parameter of SYSTEM_PROMPT's list can have: an
\* amount in millimetres or a probability in percent.
PrecipitationNames == <<PRECIP1H, PROBPRECIP>>

\* MoodPayload with the precipitation parameter under the given name.
NamedPayload(t, name, p, w, ps, sd) ==
  Dict([data |-> List(ParamEntry(T2M, t) \o ParamEntry(name, p)
                      \o ParamEntry(WIND10M, w) \o ParamEntry(PROBSNOW, ps)
                      \o ParamEntry(SNOWDEPTH, sd))])

\* One payload, a mapping with a "data" list of parameters, handed to the
\* extraction of _save_event and to the extraction of _determine_mood.
ExtractInit ==
  /\ messages = <<>>
  /\ events = <<>>
  /\ pc = [p \in Procs |-> "idle"]
  /\ frame = [p \in Procs |-> NoFrame]
  /\ outcome = [p \in Procs |-> NoOutcome]
  /\ users = StoredUsers
  /\ agents = StoredAgents
  /\ conversations = <<TheConversation>>
  /\ \E t \in DOMAIN TemperatureValues : \E n \in DOMAIN PrecipitationNames :
     \E p \in DOMAIN PrecipitationValues : \E w \in DOMAIN WindValues :
     \E ps \in DOMAIN SnowProbValues : \E sd \in DOMAIN SnowDepthValues :
       direct = [NoDirect EXCEPT
                   !.function_name = "extract",
                   !.args = [weather_data |->
                               NamedPayload(TemperatureValues[t],
                                            PrecipitationNames[n],
                                            PrecipitationValues[p],
                                            WindValues[w], SnowProbValues[ps],
                                            SnowDepthValues[sd])]]
                @@ [event_metrics |-> NoMetrics, mood_metrics |-> NoMetrics]

\* Both scans over the same payload: the one of _save_event and the one of
\* _determine_mood.  Neither reads or writes a stored row.
DirectExtract ==
  /\ ~direct.called
  /\ direct.function_name = "extract"
  /\ direct' = [direct EXCEPT
                  !.called = TRUE,
                  !.event_metrics = EventMetrics(direct.args.weather_data),
                  !.mood_metrics = MoodMetrics(direct.args.weather_data)]
  /\ UNCHANGED <<messages, events, pc, frame, outcome, users, agents,
                 conversations>>

ExtractNext == DirectExtract

ExtractSpec == ExtractInit /\ [][ExtractNext]_vars

\* ------------------------------------------------------------ the claims

AllWhitespace(s) == \A i \in DOMAIN s : s[i] \in Whitespace

\* C1: against a model that requests a tool in every response the loop
\* stops at the iteration cap: no turn makes more model calls than the cap.
C1_LoopStopsAtCap == \A p \in Procs : frame[p].calls <= IterationCap

\* C2: the stored messages of the conversation alternate: no two
\* consecutive stored messages have the same role.
C2_MessagesAlternate ==
  \A i \in 1..(Len(messages) - 1) : messages[i].role # messages[i + 1].role

\* C3: a call that fails with the wrapped exception leaves the stored
\* messages exactly as they were before the call.
C3_FailureCommitsNothing ==
  \A p \in Procs : outcome[p].kind = "Exception" => messages = outcome[p].before

\* C4: an empty or whitespace-only message never gets past the guard: the
\* call ends with ValueError, before the client is created or any request
\* is made, and with the stored messages as they were.
C4_BlankMessageRejected ==
  \A p \in Procs :
    /\ pc[p] # "idle" => ~AllWhitespace(frame[p].user_message)
    /\ (outcome[p].kind # "none" /\ AllWhitespace(outcome[p].user_message))
         => /\ outcome[p].kind = "ValueError"
            /\ ~outcome[p].network
            /\ messages = outcome[p].before

C4_Witness ==
  /\ outcome[1].kind = "ValueError"
  /\ outcome[1].user_message = <<" ", "\n", "\t">>
  /\ Len(messages) = 2

\* C5: two requests on the conversation are never inside a turn (between
\* the history read and the end of the call) at the same time.
C5_TurnsSerialized ==
  \A p, q \in Procs : p # q => (pc[p] = "idle" \/ pc[q] = "idle")

\* C6: a dispatch with a name that is none of the four tools does not raise
\* and returns success false, whatever the arguments and the conversation.
C6_UnknownToolReported ==
  (direct.called /\ direct.function_name \notin RegisteredTools)
    => /\ ~direct.raised
       /\ "success" \in DOMAIN direct.result
       /\ direct.result.success = FALSE

C6_Witness ==
  /\ direct.called
  /\ direct.function_name = "delete_event"
  /\ IsNone(direct.conversation)
  /\ "event_name" \in DOMAIN direct.args
  /\ direct.result.success = FALSE

\* C7: a tool call of the loop never ends the call with an error; the
\* model's content and the function response carrying the result are the
\* last two contents when the model is called again, and a tool-level
\* failure is such a result with success false (so is save_event without a
\* conversation).
C7_ToolFailureFedBack ==
  \A p \in Procs :
    /\ outcome[p].cause # "ToolError"
    /\ (pc[p] = "generate" /\ frame[p].calls > 0)
         => LET f == frame[p]
                n == Len(f.contents)
            IN /\ f.contents[n - 1] = f.response_content
               /\ f.contents[n].parts[1].function_response.name = f.function_call.name
               /\ f.contents[n].parts[1].function_response.response = f.function_result
               /\ f.tool_failed => f.function_result.success = FALSE
    /\ (pc[p] = "dispatch" /\ frame[p].function_call.name = "save_event")
         => LET r == CallExternalApi("save_event", frame[p].function_call.args,
                                     None, {}, [kind |-> "none"], events)
            IN ~r.raised /\ r.result.success = FALSE /\ r.events = events

C7_Witness ==
  /\ pc[1] = "generate"
  /\ frame[1].tool_failed
  /\ frame[1].function_call.name = "get_weather_data"
  /\ frame[1].function_result = Failure("API respondio con codigo distinto de 200")

\* C8: at the first model request of a turn the contents are the N stored
\* messages in stored order, role user kept and any other role as model,
\* followed by the new user message once: N + 1 contents.
C8_FirstRequestContents ==
  \A p \in Procs :
    (pc[p] = "generate" /\ frame[p].calls = 0)
      => LET c == frame[p].contents
             h == frame[p].before
             n == Len(h)
         IN /\ Len(c) = n + 1
            /\ \A i \in 1..n :
                 /\ c[i].role = (IF h[i].role = "user" THEN "user" ELSE "model")
                 /\ c[i].parts = <<[text |-> h[i].content]>>
            /\ c[n + 1] = [role |-> "user",
                           parts |-> <<[text |-> frame[p].user_message]>>]
            /\ messages = Append(h, [role |-> "user",
                                     content |-> frame[p].user_message])

C8_Witness ==
  /\ pc[1] = "generate"
  /\ frame[1].calls = 0
  /\ Len(frame[1].before) = 2
  /\ frame[1].before[2].role = "assistant"
  /\ frame[1].before[1].content # frame[1].user_message

C10_SaveEventCreatesOne ==
  ( /\ direct.called
    /\ direct.function_name = "save_event"
    /\ ~IsNone(direct.conversation)
    /\ "event_name" \in DOMAIN direct.args
    /\ "event_date" \in DOMAIN direct.args
    /\ ReplaceZ(direct.args["event_date"].v) \in IsoFormats )
    => /\ ~direct.raised
       /\ direct.result.success = TRUE
       /\ direct.created = 1
       /\ events[Len(events)].id = direct.result.event_id
       /\ events[Len(events)].user = direct.conversation.user
       /\ events[Len(events)].event_name = direct.args["event_name"]

\* The mappings written as JSON among the weather_data strings.
JsonMapping(s) == ~JsonLoads(s).raised /\ JsonLoads(s).v.t = "dict"

\* The mappings written as a Python literal that is no JSON.
LiteralMapping(s) ==
  JsonLoads(s).raised /\ ~LiteralEval(s).raised /\ LiteralEval(s).v.t = "dict"

\* C11: save_event handed a weather_data string keeps, for the event, the
\* mapping a JSON mapping denotes (the empty one too), else the mapping a
\* Python literal denotes, else the string itself under the key raw; and
\* no exception leaves save_event.
C11_WeatherParseChain ==
  ( /\ direct.called
    /\ direct.function_name = "_save_event"
    /\ direct.weather_data # [t |-> "unbound"]
    /\ "weather_data" \in DOMAIN direct.args
    /\ direct.args["weather_data"].v # "" )
    => LET s == direct.args["weather_data"].v
       IN /\ ~direct.raised
          /\ direct.weather_data =
                IF JsonMapping(s) THEN JsonLoads(s).v
                ELSE IF LiteralMapping(s) THEN LiteralEval(s).v
                ELSE Dict([raw |-> direct.args["weather_data"]])

\* The event dates that are ISO-8601.
Iso8601 == {DATE_Z, DATE_NAIVE}

\* C12: save_event without an event_date, or with one that is no ISO-8601
\* date, raises nothing, returns success false and creates no Event.
C12_BadDateReported ==
  ( /\ direct.called
    /\ direct.function_name = "_save_event"
    /\ ("event_date" \notin DOMAIN direct.args
         \/ direct.args["event_date"] \notin Iso8601) )
    => /\ ~direct.raised
       /\ direct.result.success = FALSE
       /\ direct.created = 0
       /\ events = <<>>

C12_Witness ==
  /\ direct.called
  /\ direct.function_name = "_save_event"
  /\ "event_name" \in DOMAIN direct.args
  /\ "event_date" \in DOMAIN direct.args
  /\ direct.args["event_date"] = DATE_BAD
  /\ direct.result = Failure("Error al guardar el evento: ValueError")

\* A step of the admin form, which is no operation of the orchestrator or
\* of the event endpoints.
AdminStep ==
  pc' = pc /\ frame' = frame /\ direct'.function_name = "EventAdmin.add"

\* A step that dispatches save_event.
SaveEventStep ==
  \E p \in Procs : /\ pc[p] = "dispatch" /\ pc'[p] # "dispatch"
                   /\ frame[p].function_call.name = "save_event"

\* The event row is in the table after the step as it was before.
EventKept(e) == \E j \in DOMAIN events' : events'[j] = e

\* C13 (as claimed): a step of the orchestrator or of an event endpoint
\* adds an Event only when it dispatches save_event, and leaves every
\* Event that exists as it is.
C13_EventWrittenOnce ==
  [][ ~AdminStep =>
        /\ Len(events') > Len(events) => SaveEventStep
        /\ \A i \in DOMAIN events : EventKept(events[i]) ]_vars

\* C13 (amended): a step of the orchestrator or of an event endpoint adds
\* an Event only when it dispatches save_event; an Event that exists is
\* changed or removed only by an update or delete request of the event
\* endpoints made by its own user, never by the orchestrator, by POST or by
\* another user.
C13_EventChangedByOwnerOnly ==
  [][ ~AdminStep =>
        /\ Len(events') > Len(events) => SaveEventStep
        /\ \A i \in DOMAIN events :
             ~EventKept(events[i])
               => /\ pc' = pc /\ frame' = frame /\ messages' = messages
                  /\ direct'.function_name \in
                       {"EventViewSet.update", "EventViewSet.partial_update",
                        "EventViewSet.destroy"}
                  /\ direct'.args.user = events[i].user
                  /\ direct'.args.id = events[i].id ]_vars

C13_Witness ==
  /\ Len(events) = 1
  /\ events[1].user = "alice"
  /\ events[1].event_name = PyStr("Boda")
  /\ direct.function_name = "EventViewSet.partial_update"
  /\ direct.args.user = "bob"
  /\ direct.result.status = 404
  /\ pc[1] = "generate"
  /\ frame[1].calls = 1
  /\ frame[1].function_call.name = "save_event"
  /\ frame[1].function_result.success = FALSE

\* C14: a call that returns has appended exactly the user message and then
\* the reply to the stored messages, after any number of tool calls; while
\* the loop runs only the user message has been added, and the contents
\* hold the history, the user message and two entries per tool call.
C14_TurnAppendsTwoMessages ==
  \A p \in Procs :
    /\ outcome[p].kind = "returned"
         => messages = outcome[p].before \o
              << [role |-> "user", content |-> outcome[p].user_message],
                 [role |-> "assistant", content |-> outcome[p].message.v] >>
    /\ pc[p] \in {"generate", "dispatch", "reply"}
         => /\ messages = Append(frame[p].before,
                                 [role |-> "user", content |-> frame[p].user_message])
            /\ Len(frame[p].contents) =
                 Len(frame[p].before) + 1
                 + 2 * (IF pc[p] = "generate" THEN frame[p].calls
                        ELSE frame[p].calls - 1)

C14_Witness ==
  /\ outcome[1].kind = "returned"
  /\ outcome[1].calls = 3
  /\ Len(outcome[1].before) = 2
  /\ Len(messages) = 4

\* A direct call of the classifier has returned or raised.
MoodCalled == direct.called /\ direct.function_name = "_determine_mood"

\* The lowered reply text of the call contains one of the words.
ReplyHas(words) == AnyWord(Lower(direct.args.assistant_message), words)

NoMarkers == ~ReplyHas(SuccessWords) /\ ~ReplyHas(LoadingWords)

\* The first value of the payload's parameter of that name, Absent when
\* the payload is left out or does not carry the parameter.
FirstValue(name) ==
  LET w == direct.args.weather_data
  IN IF w.t # "dict" \/ "data" \notin DOMAIN w.v THEN Absent
     ELSE LET ps == SelectSeq(w.v["data"].v, LAMBDA q : q.parameter = name)
          IN IF ps = <<>> THEN Absent
             ELSE ps[1].coordinates[1].dates[1].value

\* The value is a number greater than n (in tenths).
Gt(x, n) == x.t = "num" /\ x.v > n

\* The payload's values are numbers where it carries them.
NumbersOnly ==
  \A name \in {T2M, PRECIP1H, WIND10M, PROBSNOW, SNOWDEPTH} :
    FirstValue(name).t \in {"absent", "num"}

\* One of the three structured snow signals holds.
SnowSignal ==
  \/ Gt(FirstValue(SNOWDEPTH), 0)
  \/ Gt(FirstValue(PROBSNOW), 500)
  \/ /\ FirstValue(T2M).t = "num" /\ FirstValue(T2M).v <= 0
     /\ Gt(FirstValue(PRECIP1H), 2)

C16_HeavyRainAndWindStormy ==
  (MoodCalled /\ NoMarkers /\ NumbersOnly /\ ~SnowSignal
   /\ Gt(FirstValue(PRECIP1H), 50))
    => direct.mood = (IF Gt(FirstValue(WIND10M), 400) THEN "stormy" ELSE "rainy")

C16_Witness ==
  /\ MoodCalled
  /\ direct.args.assistant_message = REPLY_SUN
  /\ FirstValue(PRECIP1H) = Num(60)
  /\ FirstValue(WIND10M) = Num(450)
  /\ FirstValue(T2M) = Num(220)
  /\ direct.mood = "stormy"

\* C17: without markers in the reply, a payload whose only parameter is
\* t_2m:C with a first value from 18 to 28, ends included, is classified
\* sunny whatever weather words the reply contains.
C17_PleasantTemperatureSunny ==
  (MoodCalled /\ NoMarkers
   /\ \E v \in 180..280 :
        direct.args.weather_data = Dict([data |-> List(<<Param(T2M, Num(v))>>)]))
    => direct.mood = "sunny"

C17_Witness ==
  /\ MoodCalled
  /\ direct.args.assistant_message = <<"N","i","e","v","e">>
  /\ direct.args.weather_data = Dict([data |-> List(<<Param(T2M, Num(280))>>)])
  /\ direct.mood = "sunny"

\* The mood the structured precipitation and wind thresholds give, in
\* their order, "pass" when none matches.
ThresholdMood ==
  IF Gt(FirstValue(PRECIP1H), 50) /\ Gt(FirstValue(WIND10M), 400) THEN "stormy"
  ELSE IF Gt(FirstValue(PRECIP1H), 5) THEN "rainy"
  ELSE IF Gt(FirstValue(WIND10M), 500) THEN "stormy"
  ELSE "pass"

\* C18 (as claimed): without markers in the reply and without a structured
\* snow signal, a matching precipitation or wind threshold decides the
\* mood, whatever words the reply contains.
C18_ThresholdsDecide ==
  (MoodCalled /\ NoMarkers /\ NumbersOnly /\ ~SnowSignal
   /\ ThresholdMood # "pass")
    => direct.mood = ThresholdMood

\* C18 (amended): the same, unless the temperature is below -2 and the
\* reply contains one of nieve, nevada, nevado, congelado, helado; the
\* mood is then snow.
C18_ThresholdsDecideButColdWords ==
  (MoodCalled /\ NoMarkers /\ NumbersOnly /\ ~SnowSignal
   /\ ThresholdMood # "pass")
    => direct.mood =
         (IF FirstValue(T2M).t = "num" /\ FirstValue(T2M).v < -20
             /\ ReplyHas(ColdSnowWords)
          THEN "snow" ELSE ThresholdMood)

C18_Witness ==
  /\ MoodCalled
  /\ direct.args.assistant_message = <<"H","e","l","a","d","o">>
  /\ FirstValue(T2M) = Num(-30)
  /\ FirstValue(PRECIP1H) = Num(2)
  /\ FirstValue(WIND10M) = Num(510)
  /\ direct.mood = "snow"

\* C19: a call of the classifier returns one of the ten moods and leaves
\* the stored messages, events and users as they are.
C19_MoodIsOneOfTen ==
  MoodCalled
    => /\ ~direct.raised
       /\ direct.mood \in Moods
       /\ messages = <<>> /\ events = <<>> /\ users = StoredUsers

\* A confirm request for the email of a user has been answered.
ResetAnswered ==
  /\ direct.function_name = "PasswordResetConfirmView.post"
  /\ direct.args.email \in DOMAIN direct.before

\* The token of the request is the one valid for the user when the request
\* arrives.
TokenValid ==
  direct.args.token = MakeToken(direct.args.email, direct.before)

\* C20 (as claimed): a confirm request with a token not valid for the user
\* or with two different passwords is answered 400 and changes no
\* password; one with a valid token and equal passwords is answered 200
\* and the user's password is the new one.
C20_ResetConfirm ==
  ResetAnswered
    => IF ~TokenValid \/ direct.args.new_password # direct.args.password_confirm
       THEN direct.result.status = 400 /\ users = direct.before
       ELSE /\ direct.result.status = 200
            /\ CheckPassword(direct.args.new_password,
                             users[direct.args.email].password)

\* C20 (amended): the same, where the 200 case asks for equal passwords
\* that are not empty; equal empty passwords are answered 400 and change
\* no password.
C20_ResetConfirmNonEmpty ==
  ResetAnswered
    => IF \/ ~TokenValid
          \/ direct.args.new_password # direct.args.password_confirm
          \/ direct.args.new_password = ""
       THEN direct.result.status = 400 /\ users = direct.before
       ELSE /\ direct.result.status = 200
            /\ CheckPassword(direct.args.new_password,
                             users[direct.args.email].password)
            /\ \A e \in DOMAIN users \ {direct.args.email} :
                 users[e] = direct.before[e]

C20_Witness ==
  /\ ResetAnswered
  /\ direct.args.email = "ana@example.com"
  /\ direct.args.token = MakeToken("ana@example.com", StoredUsers)
  /\ direct.args.new_password = "NewPass123"
  /\ direct.args.password_confirm = "NewPass123"
  /\ direct.before["ana@example.com"].password = MakePassword("NewPass1234")
  /\ direct.result.status = 400
  /\ users["ana@example.com"].password = MakePassword("NewPass1234")

\* C21: a password-reset request for an email that belongs to no user, or
\* to a user with a linked social account, is answered 400 and sends no
\* reset email, the latter with the error code social_account; for a user
\* without a social account it is answered 200.
C21_ResetRequest ==
  (direct.function_name = "PasswordResetView.post")
    => LET email == direct.args.email
       IN IF ~UserExists(direct.before, email)
          THEN direct.result.status = 400 /\ direct.sent = <<>>
          ELSE IF direct.before[email[1]].socialaccount_set # {}
          THEN /\ direct.result.status = 400
               /\ direct.result.code = "social_account"
               /\ direct.sent = <<>>
          ELSE direct.result.status = 200

\* The parts of a response that carry a function call, in their order.
CallParts(parts) == SelectSeq(parts, LAMBDA q : ~IsNone(q.function_call))

\* The contents a turn has appended after the history and the user message.
TurnContents(f) == SubSeq(f.contents, Len(f.before) + 2, Len(f.contents))

\* The tool calls a turn has dispatched so far.
Dispatched(p) == IF pc[p] = "generate" THEN frame[p].calls ELSE frame[p].calls - 1

\* C22: each model response with a tool call gets one dispatch, of its
\* first part that carries a call: the turn's contents are the responses
\* followed each by one function response, which names that first call,
\* and a later call part of the same response gets none.
C22_OneCallPerResponse ==
  \A p \in Procs :
    pc[p] \in {"generate", "dispatch", "reply"}
      => LET f == frame[p]
             t == TurnContents(f)
         IN /\ Len(t) = 2 * Dispatched(p)
            /\ \A k \in 1..Dispatched(p) :
                 /\ t[2 * k - 1].role = "model"
                 /\ CallParts(t[2 * k - 1].parts) # <<>>
                 /\ Len(t[2 * k].parts) = 1
                 /\ t[2 * k].parts[1].function_response.name =
                      CallParts(t[2 * k - 1].parts)[1].function_call.name
            /\ pc[p] = "dispatch"
                 => f.function_call =
                      CallParts(f.response_content.parts)[1].function_call

C22_Witness ==
  /\ pc[1] = "generate"
  /\ frame[1].calls = 1
  /\ Len(CallParts(frame[1].response_content.parts)) = 2
  /\ IsNone(frame[1].response_content.parts[1].function_call)
  /\ frame[1].function_call.name = "get_current_datetime"
  /\ Len(TurnContents(frame[1])) = 2
  /\ IsNone(frame[1].weather_data_from_api)

\* The data of the last function response of the turn that answers
\* get_weather_data with success, None without one.
RECURSIVE LastWeatherData(_)
LastWeatherData(t) ==
  IF t = <<>> THEN None
  ELSE LET c == t[Len(t)]
       IN IF /\ Len(c.parts) = 1
             /\ "function_response" \in DOMAIN c.parts[1]
             /\ c.parts[1].function_response.name = "get_weather_data"
             /\ c.parts[1].function_response.response.success = TRUE
          THEN c.parts[1].function_response.response.data
          ELSE LastWeatherData(SubSeq(t, 1, Len(t) - 1))

\* C23: throughout a turn the kept weather payload is the data of the last
\* get_weather_data call of this turn that reported success, None without
\* one (a failed weather call and other tools leave it, an earlier turn
\* gives none); and that payload is the one the classifier is called with
\* when the turn ends.
C23_PayloadOfLastWeatherCall ==
  [][ \A p \in Procs :
        /\ pc'[p] \in {"generate", "dispatch", "reply"}
             => frame'[p].weather_data_from_api =
                  LastWeatherData(TurnContents(frame'[p]))
        /\ (pc[p] = "reply" /\ pc'[p] = "idle")
             => /\ outcome'[p].weather_data =
                     LastWeatherData(TurnContents(frame[p]))
                /\ outcome'[p].kind = "returned"
                     => outcome'[p].mood =
                          DetermineMood(outcome'[p].message.v,
                                        outcome'[p].weather_data) ]_vars

C23_Witness ==
  /\ pc[1] = "reply"
  /\ Len(frame[1].before) = 2
  /\ frame[1].calls = 3
  /\ LET t == TurnContents(frame[1])
     IN /\ t[2].parts[1].function_response.response =
             [success |-> TRUE, data |-> StormPayload]
        /\ t[4].parts[1].function_response.name = "get_weather_data"
        /\ t[4].parts[1].function_response.response.success = FALSE
  /\ frame[1].weather_data_from_api = StormPayload
  /\ DetermineMood(frame[1].assistant_message.v, frame[1].weather_data_from_api)
       = "stormy"

WsHandled ==
  direct.function_name = "ChatConsumer.receive" /\ direct.stage # "processing"

\* C25: every inbound frame of the socket is answered by exactly one
\* outbound frame: an error frame when the message is empty or the
\* processing failed, otherwise an agent_message frame with the reply and
\* the mood of that message.
C25_OneFramePerInbound ==
  WsHandled
    => /\ Len(direct.out) = 1
       /\ IF outcome[1].kind = "returned"
          THEN /\ outcome[1].user_message = direct.message.v
               /\ direct.out[1] =
                    [type |-> "agent_message",
                     message |-> [message |-> outcome[1].message,
                                  mood |-> outcome[1].mood]]
          ELSE DOMAIN direct.out[1] = {"error"}

\* The parameter list of the payload a _save_event call has parsed: the
\* list under data, of the mapping or of the mapping it wraps with
\* success; the empty list without one.
SavedParams ==
  LET w == direct.weather_data
      a == IF w.t = "dict" /\ "success" \in DOMAIN w.v /\ "data" \in DOMAIN w.v
           THEN w.v["data"] ELSE w
  IN IF a.t = "dict" /\ "data" \in DOMAIN a.v /\ a.v["data"].t = "list"
     THEN a.v["data"].v ELSE <<>>

\* The value of the first date of the first coordinate of the parameter
\* whose name contains the substring, None without such a parameter.
FirstOf(params, substring) ==
  LET ps == SelectSeq(params, LAMBDA q : Contains(q.parameter, substring))
  IN IF ps = <<>> THEN None ELSE ps[1].coordinates[1].dates[1].value

\* C26: a save_event call that parsed a payload with a parameter list
\* saves the event, also when the extraction failed on the way; when every
\* parameter can be read, each metric is the first value of the parameter
\* with its substring and None without such a parameter.
C26_MetricsExtractedAndSaved ==
  ( /\ direct.called
    /\ direct.function_name = "_save_event"
    /\ direct.metrics # [t |-> "unbound"]
    /\ SavedParams # <<>> )
    => /\ (\A i \in DOMAIN SavedParams : ~EventParamRaises(SavedParams[i]))
            => direct.metrics =
                 [temperature |-> FirstOf(SavedParams, T2M),
                  precipitation |-> FirstOf(SavedParams, <<"p","r","e","c","i","p">>),
                  wind_speed |->
                    FirstOf(SavedParams, <<"w","i","n","d","_","s","p","e","e","d">>),
                  prob_snowfall |->
                    FirstOf(SavedParams,
                            <<"p","r","o","b","_","s","n","o","w","f","a","l","l">>),
                  snow_depth |->
                    FirstOf(SavedParams, <<"s","n","o","w","_","d","e","p","t","h">>)]
       /\ ~direct.raised
       /\ direct.result.success = TRUE
       /\ direct.created = 1
       /\ events[Len(events)].temperature = direct.metrics.temperature

\* C27: at most one Agent row of the weather agent's type exists, no
\* get_or_create_agent call fails to find exactly one, and all
\* conversations refer to the same agent.
C27_SingleWeatherAgent ==
  /\ Len(WeatherAgents(agents)) <= 1
  /\ \A p \in Procs : outcome[p].kind # "MultipleObjectsReturned"
  /\ \A i, j \in DOMAIN conversations :
       conversations[i].agent = conversations[j].agent

\* A request of either transport names the conversation and comes from a
\* user who does not own it.
ForeignRequest ==
  /\ direct.function_name \in
       {"ChatConsumer.receive", "ConversationViewSet.send_message"}
  /\ direct.args.conversation_id = TheConversation.id
  /\ direct.args.user # TheConversation.user

\* C28: a request of either transport that names a conversation of another
\* user stores no message in it and gets no reply from it.
C28_OwnerOnly ==
  ForeignRequest
    => /\ messages = direct.before
       /\ \A i \in DOMAIN direct.out :
            /\ "type" \notin DOMAIN direct.out[i]
            /\ "assistant_message" \notin DOMAIN direct.out[i]

\* C29: a call that raised has appended no assistant message to the
\* stored messages it found, and a call that returned has appended its
\* reply as the last one.
C29_ReplyStoredIffReturned ==
  \A p \in Procs :
    /\ outcome[p].kind \in {"ValueError", "Exception"}
         => \A i \in (Len(outcome[p].before) + 1)..Len(messages) :
              messages[i].role # "assistant"
    /\ outcome[p].kind = "returned"
         => messages[Len(messages)] =
              [role |-> "assistant", content |-> outcome[p].message.v]

\* C30: for every payload that is a mapping with a "data" list of
\* parameters, the temperature, precipitation, wind speed, snow probability
\* and snow depth that _save_event extracts are the values _determine_mood
\* extracts.
C30_ExtractorsAgree ==
  (direct.called /\ direct.function_name = "extract")
    => direct.event_metrics = direct.mood_metrics

====
